---- MODULE Spec2Model ----
(***************************************************************************)
(* Model of the perception node's publishing layer:                        *)
(*   perception-node/src/messaging/mod.rs                                  *)
(*     MultiProtocolPublisher  (primary adapter + optional fallback)       *)
(*     ZmqPublisher            (the reference pub/sub adapter)             *)
(* The adapters for the other protocols (Redis, Kafka, MQTT) are named by  *)
(* create_publisher but their code is not part of the sources; they are    *)
(* modelled by the transport-adapter contract of the specification.        *)
(* One pub/sub adapter on its own, in both of its implementations          *)
(* (messaging/mod.rs with compression, messaging/zmq_pub.rs with the       *)
(* heartbeat), is the specification AdapterSpec.                           *)
(* The inference engine (inference/ort_engine.rs: OrtEngine with its       *)
(* BatchProcessor and its model registry) is the specification EngineSpec. *)
(***************************************************************************)
EXTENDS Integers, Sequences, FiniteSets, TLC

\* ---------------------------------------------------------------- bounds
\* sequence_number is a u64; no publish takes a counter beyond MaxSeq
MaxSeq == 2
\* the failure metric is an unbounded counter; no publish takes it beyond
\* MaxFailures
MaxFailures == 1
\* number of frames recorded on the wire
MaxWire == 6
\* length of a serialized payload, in bytes
MaxPayload == 2
\* the clock stops at MaxClock half seconds
MaxClock == 5
\* heartbeat_interval_sec of the configuration is 0..MaxInterval
MaxInterval == 2
\* number of camera frames submitted to the engine, and the largest
\* max_batch_size of the configuration
MaxFrames == 4
\* the engine's clock stops at MaxTime ticks; batch_timeout is 0 or MaxTime
MaxTime == 1
\* number of candidates the output tensor holds for one frame
MaxCandidates == 3
\* number of samples the capture pipeline hands to the camera's callback
MaxCaptured == 12
\* number of camera configurations given to the manager
MaxCameras == 3
\* number of frames the node serves before it is shut down
MaxServed == 2
\* number of detections of a published PerceptionFrame
MaxDetections == 2

\* the streaming threads that can be inside the new-sample callback at once
MaxCallbacks == 2

\* ------------------------------------------------------------ data types
\* enum ConnectionStatus
ConnectionStatus == {"Connected", "Disconnected", "Degraded"}

\* enum MessageType
MessageType == {"PerceptionFrame", "FusionResult", "SystemHealth", "Alert"}

\* enum MessagingProtocol, as far as create_publisher distinguishes adapters
\* whose code is in the sources ("ZeroMQ") from the others ("Other")
MessagingProtocol == {"ZeroMQ", "Other"}

\* Option<Box<dyn MessagePublisher>> = None
NoAdapter == [kind |-> "None", socket |-> FALSE, sequence_number |-> 0]

\* ZmqPublisher::new / the adapters' constructors: socket None, counter 0
NewAdapter(kind) == [kind |-> kind, socket |-> FALSE, sequence_number |-> 0]

\* the points at which one adapter publish can end
PublishOutcome ==
    {"serialize_fail", "compress_fail", "envelope_fail",
     "send_envelope_fail", "send_body_fail", "ok"}

\* the outcomes of a connect or disconnect of one adapter
IoOutcome == {"ok", "fail"}

\* one frame handed to a socket
Frame(via, part, seq, mt) ==
    [via |-> via, part |-> part, sequence_number |-> seq, message_type |-> mt]

VARIABLES
    self,        \* the MultiProtocolPublisher: primary, fallback,
                 \* connection_status, message_failures (metrics)
    wire,        \* frames handed to the adapters' sockets, in order
    lastOp,      \* the last call on the facade and what it returned
    panicked,    \* a todo!() was reached: the calling task has unwound
    adapter,     \* one ZmqPublisher on its own (AdapterSpec)
    clock,       \* the time, in half seconds
    sent,        \* the frames that adapter handed to its socket, in order
    payload,     \* the frame that is published: the length of its
                 \* serialization and of a codec's output for it
    lastPublish, \* the last publish on that adapter and what it did
    engine,      \* the OrtEngine: sessions, current_model, batch_processor
    time,        \* the engine's clock, in ticks
    arrivals,    \* per submitted frame: when it arrived, when it was flushed
    lastCall,    \* the last call on the engine and what it returned
    lastDispatch,\* the last batch handed to a session, and the session's name
    det,         \* the postprocessing of one item of a batch (DetectSpec)
    pipe,        \* one camera, its channel and its consumer (PipelineSpec)
    mgr,         \* the MultiCameraManager and its cameras (ManagerSpec)
    node,        \* the node's main function (NodeSpec)
    codec,       \* one payload on its way to a subscriber (RoundTripSpec)
    cb           \* one camera's callbacks in flight (CallbackSpec)

pubVars == <<self, wire, lastOp, panicked>>

adapterVars == <<adapter, clock, sent, payload, lastPublish>>

engineVars == <<engine, time, arrivals, lastCall, lastDispatch>>

\* the variables of the specifications of the postprocessing, the camera
\* pipeline, the camera manager and the node
stageVars == <<det, pipe, mgr, node, codec, cb>>

\* the variables of the specifications of the payload's round trip and of
\* the camera's concurrent callbacks
lateVars == <<codec, cb>>

\* ------------------------------------------------ ZmqPublisher (mod.rs)
\* a publish that also counts a message whose body send failed
C10_publish_counts_failed_send(ad, via, outcome) ==
    IF outcome = "serialize_fail" THEN
        [ret |-> "err", err |-> "Serialization failed", ad |-> ad, frames |-> <<>>]
    ELSE IF outcome = "compress_fail" THEN
        [ret |-> "err", err |-> "compression failed", ad |-> ad, frames |-> <<>>]
    ELSE IF outcome = "envelope_fail" THEN
        [ret |-> "err", err |-> "Envelope serialization failed", ad |-> ad, frames |-> <<>>]
    ELSE IF ~ad.socket THEN
        [ret |-> "err", err |-> "Not connected", ad |-> ad, frames |-> <<>>]
    ELSE IF outcome = "send_envelope_fail" THEN
        [ret |-> "err", err |-> "Failed to send envelope", ad |-> ad, frames |-> <<>>]
    ELSE IF outcome = "send_body_fail" THEN
        [ret |-> "err", err |-> "Failed to send message",
         ad |-> [ad EXCEPT !.sequence_number = @ + 1],
         frames |-> <<Frame(via, "envelope", ad.sequence_number, "PerceptionFrame")>>]
    ELSE
        [ret |-> "ok", err |-> "none",
         ad |-> [ad EXCEPT !.sequence_number = @ + 1],
         frames |-> <<Frame(via, "envelope", ad.sequence_number, "PerceptionFrame"),
                      Frame(via, "body", ad.sequence_number, "PerceptionFrame")>>]

\* a publish that advances the counter when it builds the envelope
C11_publish_counts_at_envelope(ad, via, outcome) ==
    IF outcome = "serialize_fail" THEN
        [ret |-> "err", err |-> "Serialization failed", ad |-> ad, frames |-> <<>>]
    ELSE IF outcome = "compress_fail" THEN
        [ret |-> "err", err |-> "compression failed", ad |-> ad, frames |-> <<>>]
    ELSE IF outcome = "envelope_fail" THEN
        [ret |-> "err", err |-> "Envelope serialization failed",
         ad |-> [ad EXCEPT !.sequence_number = @ + 1], frames |-> <<>>]
    ELSE IF ~ad.socket THEN
        [ret |-> "err", err |-> "Not connected",
         ad |-> [ad EXCEPT !.sequence_number = @ + 1], frames |-> <<>>]
    ELSE IF outcome = "send_envelope_fail" THEN
        [ret |-> "err", err |-> "Failed to send envelope",
         ad |-> [ad EXCEPT !.sequence_number = @ + 1], frames |-> <<>>]
    ELSE IF outcome = "send_body_fail" THEN
        [ret |-> "err", err |-> "Failed to send message",
         ad |-> [ad EXCEPT !.sequence_number = @ + 1],
         frames |-> <<Frame(via, "envelope", ad.sequence_number, "PerceptionFrame")>>]
    ELSE
        [ret |-> "ok", err |-> "none",
         ad |-> [ad EXCEPT !.sequence_number = @ + 1],
         frames |-> <<Frame(via, "envelope", ad.sequence_number, "PerceptionFrame"),
                      Frame(via, "body", ad.sequence_number, "PerceptionFrame")>>]

\* ZmqPublisher::publish_perception_frame: serialize, compress, build and
\* serialize the envelope, then the two sends; the counter advances only
\* after both sends returned Ok.
ZmqPublisher_publish_perception_frame(ad, via, outcome) ==
    IF outcome = "serialize_fail" THEN
        [ret |-> "err", err |-> "Serialization failed", ad |-> ad, frames |-> <<>>]
    ELSE IF outcome = "compress_fail" THEN
        [ret |-> "err", err |-> "compression failed", ad |-> ad, frames |-> <<>>]
    ELSE IF outcome = "envelope_fail" THEN
        [ret |-> "err", err |-> "Envelope serialization failed", ad |-> ad, frames |-> <<>>]
    ELSE IF ~ad.socket THEN
        [ret |-> "err", err |-> "Not connected", ad |-> ad, frames |-> <<>>]
    ELSE IF outcome = "send_envelope_fail" THEN
        [ret |-> "err", err |-> "Failed to send envelope", ad |-> ad, frames |-> <<>>]
    ELSE IF outcome = "send_body_fail" THEN
        [ret |-> "err", err |-> "Failed to send message", ad |-> ad,
         frames |-> <<Frame(via, "envelope", ad.sequence_number, "PerceptionFrame")>>]
    ELSE
        [ret |-> "ok", err |-> "none",
         ad |-> [ad EXCEPT !.sequence_number = @ + 1],
         frames |-> <<Frame(via, "envelope", ad.sequence_number, "PerceptionFrame"),
                      Frame(via, "body", ad.sequence_number, "PerceptionFrame")>>]

\* ZmqPublisher::publish_fusion_result / publish_system_health /
\* publish_alert: todo!(), which panics
ZmqPublisher_publish_todo(ad) ==
    [ret |-> "panic", err |-> "not yet implemented", ad |-> ad, frames |-> <<>>]

\* ZmqPublisher::connect: a failure at socket creation, at an option or at
\* bind/connect returns before self.socket is assigned
ZmqPublisher_connect(ad, outcome) ==
    IF outcome = "ok"
    THEN [ret |-> "ok", err |-> "none", ad |-> [ad EXCEPT !.socket = TRUE]]
    ELSE [ret |-> "err", err |-> "connect failed", ad |-> ad]

\* a disconnect that answers Ok and keeps the socket
C34_disconnect_keeps_socket(ad) ==
    [ret |-> "ok", err |-> "none", ad |-> ad]

\* ZmqPublisher::disconnect: socket.take(), always Ok
ZmqPublisher_disconnect(ad) ==
    [ret |-> "ok", err |-> "none", ad |-> [ad EXCEPT !.socket = FALSE]]

\* --------------------------- adapters of the other protocols (contract)
\* send primitive: fails when not connected or when the transport fails;
\* one message is envelope + body; the counter advances per success
OtherPublisher_publish(ad, via, mt, outcome) ==
    IF ad.socket /\ outcome = "ok"
    THEN [ret |-> "ok", err |-> "none",
          ad |-> [ad EXCEPT !.sequence_number = @ + 1],
          frames |-> <<Frame(via, "envelope", ad.sequence_number, mt),
                       Frame(via, "body", ad.sequence_number, mt)>>]
    ELSE [ret |-> "err", err |-> "send failed", ad |-> ad, frames |-> <<>>]

OtherPublisher_connect(ad, outcome) ==
    IF outcome = "ok"
    THEN [ret |-> "ok", err |-> "none", ad |-> [ad EXCEPT !.socket = TRUE]]
    ELSE [ret |-> "err", err |-> "connect failed", ad |-> ad]

OtherPublisher_disconnect(ad, outcome) ==
    IF outcome = "ok"
    THEN [ret |-> "ok", err |-> "none", ad |-> [ad EXCEPT !.socket = FALSE]]
    ELSE [ret |-> "err", err |-> "close failed", ad |-> ad]

\* ------------------------------ dispatch through dyn MessagePublisher
\* the closures of publish_perception_frame, publish_fusion_result,
\* publish_system_health and publish_alert, applied to one adapter
publish_fn(ad, via, mt, outcome) ==
    IF ad.kind = "ZeroMQ"
    THEN IF mt = "PerceptionFrame"
         THEN ZmqPublisher_publish_perception_frame(ad, via, outcome)
         ELSE ZmqPublisher_publish_todo(ad)
    ELSE OtherPublisher_publish(ad, via, mt, outcome)

\* the outcomes one publish on an adapter can have: every step of
\* ZmqPublisher::publish_perception_frame can fail, the send primitive of
\* another adapter succeeds or fails, a todo!() has one outcome
Outcomes(ad, mt) ==
    IF ad.kind = "ZeroMQ"
    THEN IF mt = "PerceptionFrame" THEN PublishOutcome ELSE {"ok"}
    ELSE IF ad.kind = "None" THEN {"ok"} ELSE IoOutcome

adapter_connect(ad, outcome) ==
    IF ad.kind = "ZeroMQ" THEN ZmqPublisher_connect(ad, outcome) ELSE OtherPublisher_connect(ad, outcome)

adapter_disconnect(ad, outcome) ==
    IF ad.kind = "ZeroMQ" THEN ZmqPublisher_disconnect(ad) ELSE OtherPublisher_disconnect(ad, outcome)

\* ----------------------------------- one pub/sub adapter on its own
\* enum CompressionStrategy
CompressionStrategy == {"None", "Zstd", "Lz4", "Gzip"}

\* a to_string that tags every payload as uncompressed
C31_to_string_always_none(strategy) == "none"

\* CompressionStrategy::to_string
to_string(strategy) ==
    CASE strategy = "None" -> "none"
      [] strategy = "Zstd" -> "zstd"
      [] strategy = "Lz4"  -> "lz4"
      [] strategy = "Gzip" -> "gzip"

\* ZmqPublisher::compress_data, on lengths: None copies the data; the
\* length of the output of a codec is the codec's (codec_len)
compress_data(strategy, data_len, codec_len) ==
    IF strategy = "None" THEN data_len ELSE codec_len

\* an envelope that reports the serialized length as compressed_size
C13_envelope_sizes_from_serialized(ad, mt, serialized_len, compressed_len) ==
    [message_type |-> mt,
     sequence_number |-> ad.sequence_number,
     compression |-> to_string(ad.compression),
     original_size |-> serialized_len,
     compressed_size |-> serialized_len]

\* the MessageEnvelope built by publish_perception_frame (mod.rs 232-240)
MessageEnvelope(ad, mt, serialized_len, compressed_len) ==
    [message_type |-> mt,
     sequence_number |-> ad.sequence_number,
     compression |-> to_string(ad.compression),
     original_size |-> serialized_len,
     compressed_size |-> compressed_len]

\* the frames of one publish_perception_frame as the socket gets them: the
\* serialized envelope, then the compressed payload
ModFrames(frames, envelope, compressed_len) ==
    [i \in 1..Len(frames) |->
        IF frames[i].part = "envelope"
        THEN [part |-> "envelope", message_type |-> envelope.message_type,
              envelope |-> envelope]
        ELSE [part |-> "body", message_type |-> envelope.message_type,
              len |-> compressed_len]]

\* ZmqPublisher::new (mod.rs): socket None, counter 0, codec from the config
ModAdapter_new(compression) ==
    [impl |-> "mod", kind |-> "ZeroMQ", socket |-> FALSE, sequence_number |-> 0,
     compression |-> compression,
     heartbeat_interval_sec |-> 0, last_heartbeat |-> 0]

\* ZmqPublisher::new (zmq_pub.rs): the socket is bound, counter 0,
\* last_heartbeat = Instant::now()
ZmqPub_new(heartbeat_interval_sec, now) ==
    [impl |-> "zmq_pub", kind |-> "ZeroMQ", socket |-> TRUE, sequence_number |-> 0,
     compression |-> "None",
     heartbeat_interval_sec |-> heartbeat_interval_sec, last_heartbeat |-> now]

\* Duration::as_secs of a duration in half seconds
as_secs(d) == d \div 2

\* a heartbeat test that needs more than the interval
C12_heartbeat_due_strict(ad, now) ==
    as_secs(now - ad.last_heartbeat) > ad.heartbeat_interval_sec

\* the heartbeat test of publish (zmq_pub.rs 80)
heartbeat_due(ad, now) ==
    as_secs(now - ad.last_heartbeat) >= ad.heartbeat_interval_sec

\* the points at which one send of zmq_pub.rs (serialize, two sends) can end
ZmqPubOutcome == {"serialize_fail", "send_envelope_fail", "send_body_fail", "ok"}

\* the two-frame send of publish and of send_heartbeat (zmq_pub.rs 69-74,
\* 98-102): header "<topic> <message_type>", then the serialized message
ZmqPub_send(mt, seq, outcome) ==
    IF outcome = "serialize_fail" \/ outcome = "send_envelope_fail" THEN
        [ret |-> "err", frames |-> <<>>]
    ELSE IF outcome = "send_body_fail" THEN
        [ret |-> "err",
         frames |-> <<[part |-> "envelope", message_type |-> mt]>>]
    ELSE
        [ret |-> "ok",
         frames |-> <<[part |-> "envelope", message_type |-> mt],
                      [part |-> "body", message_type |-> mt,
                       sequence_number |-> seq]>>]

\* ZmqPublisher::send_heartbeat (zmq_pub.rs): the HeartbeatMessage carries
\* the publisher's sequence_number
ZmqPub_send_heartbeat(ad, outcome) ==
    ZmqPub_send("heartbeat", ad.sequence_number, outcome)

\* ZmqPublisher::publish (zmq_pub.rs): the data message, the counter, then
\* the heartbeat when it is due; a failed heartbeat returns the error and
\* leaves last_heartbeat
ZmqPub_publish(ad, now, outcome, hbOutcome) ==
    LET data == ZmqPub_send("perception_frame", 0, outcome) IN
    IF data.ret = "err" THEN
        [ret |-> "err", ad |-> ad, frames |-> data.frames,
         dataSent |-> FALSE, hbAttempted |-> FALSE]
    ELSE
        LET ad1 == [ad EXCEPT !.sequence_number = @ + 1] IN
        IF heartbeat_due(ad1, now) THEN
            LET hb == ZmqPub_send_heartbeat(ad1, hbOutcome) IN
            IF hb.ret = "err" THEN
                [ret |-> "err", ad |-> ad1, frames |-> data.frames \o hb.frames,
                 dataSent |-> TRUE, hbAttempted |-> TRUE]
            ELSE
                [ret |-> "ok", ad |-> [ad1 EXCEPT !.last_heartbeat = now],
                 frames |-> data.frames \o hb.frames,
                 dataSent |-> TRUE, hbAttempted |-> TRUE]
        ELSE
            [ret |-> "ok", ad |-> ad1, frames |-> data.frames,
             dataSent |-> TRUE, hbAttempted |-> FALSE]

NoPublish ==
    [op |-> "none", ret |-> "none", outcome |-> "none", hbOutcome |-> "none",
     seqBefore |-> 0, sentBefore |-> 0, elapsed |-> 0,
     serialized_len |-> 0, compressed_len |-> 0,
     dataSent |-> FALSE, hbAttempted |-> FALSE]

\* the values the adapter's variables keep in the other specifications
NotAdapterInit ==
    /\ adapter = ModAdapter_new("None")
    /\ clock = 0
    /\ sent = <<>>
    /\ payload = [serialized_len |-> 1, codec_len |-> 1]
    /\ lastPublish = NoPublish

\* ------------------------------------------- OrtEngine (ort_engine.rs)
\* the names under which OrtEngine::new registers sessions
ModelNames == {"detection", "segmentation", "robot_identification"}

\* PerceptionError::InferenceError(msg)
InferenceError(msg) == [kind |-> "InferenceError", msg |-> msg]

\* the error of a step whose code is not in ort_engine.rs (preprocess)
OtherError(msg) == [kind |-> "Other", msg |-> msg]

NoError == [kind |-> "none", msg |-> ""]

\* an engine that starts on the segmentation session
C38_OrtEngine_new_starts_on_segmentation(optional, max_batch_size, batch_timeout) ==
    [sessions |-> {"detection"} \cup optional,
     current_model |-> "segmentation",
     max_batch_size |-> max_batch_size,
     batch_timeout |-> batch_timeout,
     pending_frames |-> <<>>]

\* OrtEngine::new: "detection" is always loaded, the two other models when
\* the configuration names their paths; current_model is "detection"
OrtEngine_new(optional, max_batch_size, batch_timeout) ==
    [sessions |-> {"detection"} \cup optional,
     current_model |-> "detection",
     max_batch_size |-> max_batch_size,
     batch_timeout |-> batch_timeout,
     pending_frames |-> <<>>]

\* a CameraFrame (camera/mod.rs), without its pixel data
CameraFrame(sequence_num, timestamp, width, height) ==
    [sequence_num |-> sequence_num, timestamp |-> timestamp,
     width |-> width, height |-> height]

\* PerceptionFrame::new as postprocess_batch calls it: the arguments of the
\* call, under the names of what is passed
PerceptionFrame_new(frame_id, sequence_num, timestamp, width, height) ==
    [frame_id |-> frame_id, sequence_num |-> sequence_num,
     timestamp |-> timestamp, image_width |-> width, image_height |-> height]

NoFrame == PerceptionFrame_new(0, 0, 0, 0, 0)

\* the points at which the fallible steps of one flush can end
BatchOutcome == {"preprocess_fail", "inference_fail", "extract_fail", "ok"}

\* OrtEngine::create_batch_input: an empty batch is an error
create_batch_input(tensors) ==
    IF Len(tensors) = 0
    THEN [ret |-> "err", err |-> InferenceError("Empty batch")]
    ELSE [ret |-> "ok", err |-> NoError]

\* a postprocessing that numbers the results by their position in the batch
C18_postprocess_numbers_by_position(frames, outcome) ==
    IF Len(frames) > 0 /\ outcome = "extract_fail" THEN
        [ret |-> "err", err |-> InferenceError("Failed to extract tensor"),
         results |-> <<>>]
    ELSE
        [ret |-> "ok", err |-> NoError,
         results |-> [i \in 1..Len(frames) |->
            PerceptionFrame_new(0, i - 1, frames[i].timestamp,
                                frames[i].width, frames[i].height)]]

\* OrtEngine::postprocess_batch: one PerceptionFrame per frame of the batch,
\* in the order of the batch; the tensor is extracted once per frame
postprocess_batch(frames, outcome) ==
    IF Len(frames) > 0 /\ outcome = "extract_fail" THEN
        [ret |-> "err", err |-> InferenceError("Failed to extract tensor"),
         results |-> <<>>]
    ELSE
        [ret |-> "ok", err |-> NoError,
         results |-> [i \in 1..Len(frames) |->
            PerceptionFrame_new(0, frames[i].sequence_num, frames[i].timestamp,
                                frames[i].width, frames[i].height)]]

\* what one flush returns: the batch it took, whether and with which session
\* it ran the inference, and the result handed back
Flushed(ret, err, e, batch, model, result) ==
    [ret |-> ret, err |-> err, e |-> e, batch |-> batch,
     dispatched |-> (model # "none"), model |-> model, result |-> result]

\* the frames of the pending batch, oldest first
PendingFrames(e) ==
    [i \in 1..Len(e.pending_frames) |-> e.pending_frames[i].frame]

\* process_batch from the drain on (ort_engine.rs 150-176), for the batch
\* frames taken out of e and the session named model: preprocess each frame,
\* stack the tensors, look the session up, run it, postprocess, and return
\* the first result
run_batch(e, frames, model, outcome) ==
    IF Len(frames) > 0 /\ outcome = "preprocess_fail" THEN
        Flushed("err", OtherError("preprocess"), e, frames, "none", NoFrame)
    ELSE IF create_batch_input(frames).ret = "err" THEN
        Flushed("err", create_batch_input(frames).err, e, frames, "none", NoFrame)
    ELSE IF model \notin e.sessions THEN
        Flushed("err", InferenceError("Model not found"), e, frames, "none", NoFrame)
    ELSE IF outcome = "inference_fail" THEN
        Flushed("err", InferenceError("Inference failed"), e, frames, model, NoFrame)
    ELSE
        LET post == postprocess_batch(frames, outcome) IN
        IF post.ret = "err" THEN
            Flushed("err", post.err, e, frames, model, NoFrame)
        ELSE IF Len(post.results) = 0 THEN
            Flushed("err", InferenceError("No results from batch"), e, frames,
                    model, NoFrame)
        ELSE
            Flushed("ok", NoError, e, frames, model, post.results[1])

\* a flush that leaves the batch pending when preprocessing fails
C16_process_batch_keeps_on_error(e, outcome) ==
    IF e.pending_frames = <<>> THEN
        Flushed("err", InferenceError("No frames to process"), e, <<>>, "none",
                NoFrame)
    ELSE IF outcome = "preprocess_fail" THEN
        Flushed("err", OtherError("preprocess"), e, <<>>, "none", NoFrame)
    ELSE
        run_batch([e EXCEPT !.pending_frames = <<>>], PendingFrames(e),
                  e.current_model, outcome)

\* a flush without the test for an empty batch
C17_process_batch_no_empty_check(e, outcome) ==
    run_batch([e EXCEPT !.pending_frames = <<>>], PendingFrames(e),
              e.current_model, outcome)

\* a flush that always runs the session loaded first
C19_process_batch_uses_detection(e, outcome) ==
    IF e.pending_frames = <<>> THEN
        Flushed("err", InferenceError("No frames to process"), e, <<>>, "none",
                NoFrame)
    ELSE
        run_batch([e EXCEPT !.pending_frames = <<>>], PendingFrames(e),
                  "detection", outcome)

\* a flush that takes the frames out of the batch only when it succeeds
C21_process_batch_drains_on_success(e, outcome) ==
    IF e.pending_frames = <<>> THEN
        Flushed("err", InferenceError("No frames to process"), e, <<>>, "none",
                NoFrame)
    ELSE
        LET r == run_batch([e EXCEPT !.pending_frames = <<>>], PendingFrames(e),
                           e.current_model, outcome)
        IN  IF r.ret = "ok" THEN r ELSE [r EXCEPT !.e = e]

\* a flush that puts the batch back when the inference fails
C37_process_batch_requeues_after_inference(e, outcome) ==
    IF e.pending_frames = <<>> THEN
        Flushed("err", InferenceError("No frames to process"), e, <<>>, "none",
                NoFrame)
    ELSE
        LET r == run_batch([e EXCEPT !.pending_frames = <<>>], PendingFrames(e),
                           e.current_model, outcome)
        IN  IF outcome = "inference_fail" /\ r.dispatched
            THEN [r EXCEPT !.e = e] ELSE r

\* OrtEngine::process_batch: an empty batch is an error; otherwise drain(..)
\* empties pending_frames whatever happens next, and the batch runs on the
\* session current_model names at that moment
process_batch(e, outcome) ==
    IF e.pending_frames = <<>> THEN
        Flushed("err", InferenceError("No frames to process"), e, <<>>, "none",
                NoFrame)
    ELSE
        run_batch([e EXCEPT !.pending_frames = <<>>], PendingFrames(e),
                  e.current_model, outcome)

\* the test of process_frame (ort_engine.rs 133-135): the batch is full, or
\* its oldest frame has waited batch_timeout
flush_due(e, now) ==
    \/ Len(e.pending_frames) >= e.max_batch_size
    \/ now - e.pending_frames[1].at >= e.batch_timeout

\* what one process_frame did: the flush it made (or none), whether the
\* test of the triggers held, and the length of the batch after the push
Processed(r, flushed, due, peak) ==
    [ret |-> r.ret, err |-> r.err, e |-> r.e, batch |-> r.batch,
     dispatched |-> r.dispatched, model |-> r.model, result |-> r.result,
     flushed |-> flushed, due |-> due, peak |-> peak]

\* a process_frame that flushes only a batch that has outgrown
\* max_batch_size or waited batch_timeout, and otherwise keeps the frame
C15_process_frame_waits(e, frame, now, outcome) ==
    LET e1 == [e EXCEPT !.pending_frames = Append(@, [frame |-> frame, at |-> now])]
        due == \/ Len(e1.pending_frames) > e1.max_batch_size
               \/ now - e1.pending_frames[1].at >= e1.batch_timeout
    IN  IF due
        THEN Processed(process_batch(e1, outcome), TRUE, due, Len(e1.pending_frames))
        ELSE Processed(Flushed("pending", NoError, e1, <<>>, "none", NoFrame),
                       FALSE, due, Len(e1.pending_frames))

\* OrtEngine::process_frame: push the frame with its arrival time, flush
\* when a trigger holds, and flush as well when none does (line 142)
process_frame(e, frame, now, outcome) ==
    LET e1 == [e EXCEPT !.pending_frames = Append(@, [frame |-> frame, at |-> now])]
        due == flush_due(e1, now)
    IN  IF due
        THEN Processed(process_batch(e1, outcome), TRUE, due, Len(e1.pending_frames))
        ELSE Processed(process_batch(e1, outcome), TRUE, due, Len(e1.pending_frames))

\* a switch that moves the pointer to a name the registry does not hold
C20_switch_model_sets_unknown(e, model_name) ==
    [ret |-> IF model_name \in e.sessions THEN "ok" ELSE "err",
     err |-> IF model_name \in e.sessions THEN NoError
             ELSE InferenceError("Model not found"),
     e |-> [e EXCEPT !.current_model = model_name]]

\* OrtEngine::switch_model
switch_model(e, model_name) ==
    IF model_name \in e.sessions THEN
        [ret |-> "ok", err |-> NoError, e |-> [e EXCEPT !.current_model = model_name]]
    ELSE
        [ret |-> "err", err |-> InferenceError("Model not found"), e |-> e]

\* OrtEngine::get_available_models
get_available_models(e) == e.sessions

NoDispatch == [model |-> "none", batch_size |-> 0]

NoCall ==
    [op |-> "none", ret |-> "none", err |-> NoError,
     frame |-> CameraFrame(0, 0, 0, 0), batch |-> <<>>, result |-> NoFrame,
     dispatched |-> FALSE, flushed |-> FALSE, due |-> FALSE, peak |-> 0,
     age |-> 0, model_name |-> "none", outcome |-> "none",
     after_error |-> FALSE]

\* the values the engine's variables keep in the other specifications
NotEngineInit ==
    /\ engine = OrtEngine_new({}, 1, 0)
    /\ time = 0
    /\ arrivals = <<>>
    /\ lastCall = NoCall
    /\ lastDispatch = NoDispatch

\* the values det, pipe, mgr and node keep in the specifications that do
\* not use them
NotDetectInit == det = [stage |-> "none"]

NotPipelineInit == pipe = [stage |-> "none"]

NotManagerInit == mgr = [stage |-> "none"]

NotNodeInit == node = [pc |-> "none"]

\* the values codec and cb keep in the specifications that do not use them
NotCodecInit == codec = [stage |-> "none"]

NotCallbackInit == cb = [stage |-> "none"]

NotLateInit ==
    /\ NotCodecInit
    /\ NotCallbackInit

NotStageInit ==
    /\ NotDetectInit
    /\ NotPipelineInit
    /\ NotManagerInit
    /\ NotNodeInit
    /\ NotLateInit

\* ------------------------------------------------ MultiProtocolPublisher
\* a PerceptionError::MessagingError as the caller sees it: the adapter
\* whose failure it reports (its text is not recorded)
Error(from, msg) == [from |-> from, kind |-> "MessagingError"]

\* a constructor that starts in status Connected
C9_new_starts_connected(protocol, fallback_protocol) ==
    [primary |-> NewAdapter(protocol),
     fallback |-> IF fallback_protocol = "None" THEN NoAdapter
                  ELSE NewAdapter(fallback_protocol),
     connection_status |-> "Connected",
     message_failures |-> 0]

\* MultiProtocolPublisher::new
MultiProtocolPublisher_new(protocol, fallback_protocol) ==
    [primary |-> NewAdapter(protocol),
     fallback |-> IF fallback_protocol = "None" THEN NoAdapter
                  ELSE NewAdapter(fallback_protocol),
     connection_status |-> "Disconnected",
     message_failures |-> 0]

\* a primary Ok arm that forgets to set the status
C3_primary_ok_keeps_status(s, pr) ==
    [self |-> [s EXCEPT !.primary = pr.ad],
     ret |-> "ok", err |-> <<>>, frames |-> pr.frames,
     pRes |-> "ok", fRes |-> "none"]

\* try_publish, Ok arm of the primary (mod.rs 71-74)
try_publish_primary_ok(s, pr) ==
    [self |-> [s EXCEPT !.primary = pr.ad, !.connection_status = "Connected"],
     ret |-> "ok", err |-> <<>>, frames |-> pr.frames,
     pRes |-> "ok", fRes |-> "none"]

\* a fallback Ok arm that reports Connected
C1_fallback_ok_connected(s1, pr, fr) ==
    [self |-> [s1 EXCEPT !.fallback = fr.ad, !.connection_status = "Connected"],
     ret |-> "ok", err |-> <<>>, frames |-> pr.frames \o fr.frames,
     pRes |-> "err", fRes |-> "ok"]

\* try_publish, Ok arm of the fallback (mod.rs 82-85)
try_publish_fallback_ok(s1, pr, fr) ==
    [self |-> [s1 EXCEPT !.fallback = fr.ad, !.connection_status = "Degraded"],
     ret |-> "ok", err |-> <<>>, frames |-> pr.frames \o fr.frames,
     pRes |-> "err", fRes |-> "ok"]

\* a fallback Err arm that forgets to set the status
C2_fallback_err_keeps_status(s1, pr, fr) ==
    [self |-> [s1 EXCEPT !.fallback = fr.ad],
     ret |-> "err", err |-> <<Error("fallback", fr.err)>>,
     frames |-> pr.frames \o fr.frames, pRes |-> "err", fRes |-> "err"]

\* try_publish, Err arm of the fallback (mod.rs 86-90)
try_publish_fallback_err(s1, pr, fr) ==
    [self |-> [s1 EXCEPT !.fallback = fr.ad, !.connection_status = "Disconnected"],
     ret |-> "err", err |-> <<Error("fallback", fr.err)>>,
     frames |-> pr.frames \o fr.frames, pRes |-> "err", fRes |-> "err"]

\* try_publish, no fallback configured (mod.rs 92-95)
try_publish_no_fallback(s1, pr) ==
    [self |-> [s1 EXCEPT !.connection_status = "Disconnected"],
     ret |-> "err", err |-> <<Error("primary", pr.err)>>,
     frames |-> pr.frames, pRes |-> "err", fRes |-> "none"]

\* a try_publish that counts a failure only when the message was lost
C32_try_publish_counts_lost_messages(s, mt, po, fo) ==
    LET pr == publish_fn(s.primary, "primary", mt, po) IN
    IF pr.ret = "panic" THEN
        [self |-> s, ret |-> "panic", err |-> <<>>, frames |-> <<>>,
         pRes |-> "panic", fRes |-> "none"]
    ELSE IF pr.ret = "ok" THEN
        try_publish_primary_ok(s, pr)
    ELSE
        LET s1 == [s EXCEPT !.primary = pr.ad]
            counted == [s1 EXCEPT !.message_failures = @ + 1]
        IN
        IF s.fallback.kind # "None" THEN
            LET fr == publish_fn(s.fallback, "fallback", mt, fo) IN
            IF fr.ret = "panic" THEN
                [self |-> s1, ret |-> "panic", err |-> <<>>,
                 frames |-> pr.frames, pRes |-> "err", fRes |-> "panic"]
            ELSE IF fr.ret = "ok" THEN
                try_publish_fallback_ok(s1, pr, fr)
            ELSE
                try_publish_fallback_err(counted, pr, fr)
        ELSE
            try_publish_no_fallback(counted, pr)

\* MultiProtocolPublisher::try_publish; a todo!() in an adapter unwinds
\* through it: nothing after the call is executed
try_publish(s, mt, po, fo) ==
    LET pr == publish_fn(s.primary, "primary", mt, po) IN
    IF pr.ret = "panic" THEN
        [self |-> s, ret |-> "panic", err |-> <<>>, frames |-> <<>>,
         pRes |-> "panic", fRes |-> "none"]
    ELSE IF pr.ret = "ok" THEN
        try_publish_primary_ok(s, pr)
    ELSE
        \* self.metrics.increment_message_failures()
        LET s1 == [s EXCEPT !.primary = pr.ad, !.message_failures = @ + 1] IN
        IF s.fallback.kind # "None" THEN
            LET fr == publish_fn(s.fallback, "fallback", mt, fo) IN
            IF fr.ret = "panic" THEN
                [self |-> s1, ret |-> "panic", err |-> <<>>,
                 frames |-> pr.frames, pRes |-> "err", fRes |-> "panic"]
            ELSE IF fr.ret = "ok" THEN
                try_publish_fallback_ok(s1, pr, fr)
            ELSE
                try_publish_fallback_err(s1, pr, fr)
        ELSE
            try_publish_no_fallback(s1, pr)

\* a connect that returns the primary's error when both connects failed
C5_connect_returns_primary_error(s, pr, fr) ==
    [self |-> [s EXCEPT !.primary = pr.ad, !.fallback = fr.ad],
     ret |-> "err", err |-> <<Error("primary", pr.err)>>,
     pRes |-> "err", fRes |-> "err"]

\* a connect that resets the status when both connects failed
C6_connect_err_sets_disconnected(s, pr, fr) ==
    [self |-> [s EXCEPT !.primary = pr.ad, !.fallback = fr.ad,
                        !.connection_status = "Disconnected"],
     ret |-> "err", err |-> <<Error("fallback", fr.err)>>,
     pRes |-> "err", fRes |-> "err"]

\* connect, primary failed and fallback.connect().await? returned the
\* fallback's error (mod.rs 128)
connect_fallback_err(s, pr, fr) ==
    [self |-> [s EXCEPT !.primary = pr.ad, !.fallback = fr.ad],
     ret |-> "err", err |-> <<Error("fallback", fr.err)>>,
     pRes |-> "err", fRes |-> "err"]

\* a connect that reports Connected when only the fallback connected
C4_connect_fallback_ok_connected(s, pr, fr) ==
    [self |-> [s EXCEPT !.primary = pr.ad, !.fallback = fr.ad,
                        !.connection_status = "Connected"],
     ret |-> "ok", err |-> <<>>, pRes |-> "err", fRes |-> "ok"]

\* connect, primary failed and the fallback connected (mod.rs 128-129)
connect_fallback_ok(s, pr, fr) ==
    [self |-> [s EXCEPT !.primary = pr.ad, !.fallback = fr.ad,
                        !.connection_status = "Degraded"],
     ret |-> "ok", err |-> <<>>, pRes |-> "err", fRes |-> "ok"]

\* MultiProtocolPublisher::connect
MultiProtocolPublisher_connect(s, po, fo) ==
    LET pr == adapter_connect(s.primary, po) IN
    IF pr.ret = "err" THEN
        IF s.fallback.kind # "None" THEN
            LET fr == adapter_connect(s.fallback, fo) IN
            IF fr.ret = "err"
            THEN connect_fallback_err(s, pr, fr)
            ELSE connect_fallback_ok(s, pr, fr)
        ELSE
            \* return Err(e)
            [self |-> [s EXCEPT !.primary = pr.ad],
             ret |-> "err", err |-> <<Error("primary", pr.err)>>,
             pRes |-> "err", fRes |-> "none"]
    ELSE
        [self |-> [s EXCEPT !.primary = pr.ad,
                            !.connection_status = "Connected"],
         ret |-> "ok", err |-> <<>>, pRes |-> "ok", fRes |-> "none"]

\* a disconnect that gives up at the first close failure
C7_disconnect_stops_at_first_failure(s, po, fo) ==
    LET pr == adapter_disconnect(s.primary, po)
        hasFb == s.fallback.kind # "None"
        fr == adapter_disconnect(s.fallback, fo)
    IN  IF pr.ret = "err"
        THEN [self |-> [s EXCEPT !.primary = pr.ad,
                                 !.connection_status = "Disconnected"],
              ret |-> "err",
              err |-> <<Error("primary", "Primary disconnect failed")>>,
              pRes |-> "err", fRes |-> "none"]
        ELSE [self |-> [s EXCEPT !.primary = pr.ad,
                                 !.fallback = IF hasFb THEN fr.ad ELSE @,
                                 !.connection_status = "Disconnected"],
              ret |-> IF hasFb /\ fr.ret = "err" THEN "err" ELSE "ok",
              err |-> IF hasFb /\ fr.ret = "err"
                      THEN <<Error("fallback", "Fallback disconnect failed")>>
                      ELSE <<>>,
              pRes |-> "ok",
              fRes |-> IF hasFb THEN fr.ret ELSE "none"]

\* MultiProtocolPublisher::disconnect
MultiProtocolPublisher_disconnect(s, po, fo) ==
    LET pr == adapter_disconnect(s.primary, po)
        errors1 == IF pr.ret = "err"
                   THEN <<Error("primary", "Primary disconnect failed")>>
                   ELSE <<>>
        hasFb == s.fallback.kind # "None"
        fr == adapter_disconnect(s.fallback, fo)
        errors == IF hasFb /\ fr.ret = "err"
                  THEN Append(errors1, Error("fallback", "Fallback disconnect failed"))
                  ELSE errors1
    IN  [self |-> [s EXCEPT !.primary = pr.ad,
                            !.fallback = IF hasFb THEN fr.ad ELSE @,
                            !.connection_status = "Disconnected"],
         ret |-> IF errors = <<>> THEN "ok" ELSE "err",
         err |-> errors,
         pRes |-> pr.ret,
         fRes |-> IF hasFb THEN fr.ret ELSE "none"]

\* an is_connected that does not count Degraded
C8_is_connected_only_connected(s) ==
    s.connection_status = "Connected"

\* MultiProtocolPublisher::is_connected
MultiProtocolPublisher_is_connected(s) ==
    s.connection_status = "Connected" \/ s.connection_status = "Degraded"

\* --------------------------------------------------------------- actions
\* the variables of the other specifications
notPubVars == <<adapterVars, engineVars, stageVars>>

NoOp ==
    [op |-> "none", ret |-> "none", err |-> <<>>,
     pRes |-> "none", fRes |-> "none", before |-> "Disconnected", val |-> FALSE]

Called(op, r, val) ==
    [op |-> op, ret |-> r.ret, err |-> r.err,
     pRes |-> r.pRes, fRes |-> r.fRes,
     before |-> self.connection_status, val |-> val]

PubInit ==
    /\ self \in {MultiProtocolPublisher_new(p, f) :
                    p \in MessagingProtocol, f \in MessagingProtocol \cup {"None"}}
    /\ wire = <<>>
    /\ lastOp = NoOp
    /\ panicked = FALSE
    /\ NotAdapterInit
    /\ NotEngineInit
    /\ NotStageInit

\* publish_perception_frame / publish_fusion_result / publish_system_health
\* / publish_alert on the facade
Publish ==
    /\ ~panicked
    /\ \E mt \in MessageType :
       \E po \in Outcomes(self.primary, mt), fo \in Outcomes(self.fallback, mt) :
          LET r == try_publish(self, mt, po, fo) IN
          /\ r.self.primary.sequence_number <= MaxSeq
          /\ r.self.fallback.sequence_number <= MaxSeq
          /\ r.self.message_failures <= MaxFailures
          /\ Len(wire) + Len(r.frames) <= MaxWire
          /\ self' = r.self
          /\ wire' = wire \o r.frames
          /\ lastOp' = Called("publish", r, FALSE)
          /\ panicked' = (r.ret = "panic")
          /\ UNCHANGED notPubVars

Connect ==
    /\ ~panicked
    /\ \E po \in IoOutcome, fo \in IoOutcome :
          LET r == MultiProtocolPublisher_connect(self, po, fo) IN
          /\ self' = r.self
          /\ lastOp' = Called("connect", r, FALSE)
          /\ UNCHANGED <<wire, panicked>>
          /\ UNCHANGED notPubVars

Disconnect ==
    /\ ~panicked
    /\ \E po \in IoOutcome, fo \in IoOutcome :
          LET r == MultiProtocolPublisher_disconnect(self, po, fo) IN
          /\ self' = r.self
          /\ lastOp' = Called("disconnect", r, FALSE)
          /\ UNCHANGED <<wire, panicked>>
          /\ UNCHANGED notPubVars

IsConnected ==
    /\ ~panicked
    /\ lastOp' = [NoOp EXCEPT !.op = "is_connected", !.ret = "ok",
                              !.before = self.connection_status,
                              !.val = MultiProtocolPublisher_is_connected(self)]
    /\ UNCHANGED <<self, wire, panicked>>
    /\ UNCHANGED notPubVars

PubNext == Publish \/ Connect \/ Disconnect \/ IsConnected

PubSpec == PubInit /\ [][PubNext]_pubVars

\* ================================================================ claims
HasFallback == self.fallback.kind # "None"

\* the messages one adapter published in full (their body frames), in order
BodyFrames(via) ==
    SelectSeq(wire, LAMBDA f : f.via = via /\ f.part = "body")

\* C1: on a publisher with a fallback, a publish whose primary send failed
\* and whose fallback send succeeded returned success and left the status
\* Degraded.
C1_FailoverDegraded ==
    (lastOp.op = "publish" /\ HasFallback
        /\ lastOp.pRes = "err" /\ lastOp.fRes = "ok")
    => (lastOp.ret = "ok" /\ self.connection_status = "Degraded")

C1_Witness ==
    /\ lastOp.op = "publish" /\ HasFallback
    /\ lastOp.pRes = "err" /\ lastOp.fRes = "ok"
    /\ lastOp.before = "Connected"

\* C2: a publish returns an error exactly when the primary send failed and
\* the fallback is absent or failed too, and a publish that returned ends
\* with status Disconnected exactly in those cases.
C2_TotalFailure ==
    (lastOp.op = "publish" /\ lastOp.ret \in {"ok", "err"})
    => /\ (lastOp.ret = "err")
            <=> (lastOp.pRes = "err" /\ (~HasFallback \/ lastOp.fRes = "err"))
       /\ (lastOp.ret = "err") <=> (self.connection_status = "Disconnected")

C2_Witness ==
    /\ lastOp.op = "publish" /\ lastOp.ret = "err" /\ HasFallback
    /\ lastOp.pRes = "err" /\ lastOp.fRes = "err"
    /\ lastOp.before = "Degraded"

\* C3: a publish that succeeds through the primary ends with status
\* Connected whatever the status was, and does not touch the fallback: the
\* fallback adapter is unchanged and no frame goes to its socket.
C3_PrimaryRecovery ==
    [][(lastOp'.op = "publish" /\ lastOp'.pRes = "ok")
        => /\ self'.connection_status = "Connected"
           /\ lastOp'.ret = "ok"
           /\ lastOp'.fRes = "none"
           /\ self'.fallback = self.fallback
           /\ \A i \in (Len(wire) + 1)..Len(wire') : wire'[i].via = "primary"]_pubVars

C3_Witness ==
    /\ lastOp.op = "publish" /\ lastOp.pRes = "ok"
    /\ lastOp.before = "Degraded"
    /\ self.connection_status = "Connected"

\* C4: connect returns success with status Connected when the primary
\* connects, and success with status Degraded when the primary fails and a
\* configured fallback connects.
C4_ConnectStatus ==
    lastOp.op = "connect"
    => /\ lastOp.pRes = "ok"
            => (lastOp.ret = "ok" /\ self.connection_status = "Connected")
       /\ (lastOp.pRes = "err" /\ HasFallback /\ lastOp.fRes = "ok")
            => (lastOp.ret = "ok" /\ self.connection_status = "Degraded")

C4_Witness ==
    /\ lastOp.op = "connect" /\ HasFallback
    /\ lastOp.pRes = "err" /\ lastOp.fRes = "ok"
    /\ self.connection_status = "Degraded"

\* C5 as claimed: when the primary connect and the fallback connect both
\* fail, connect returns the error of the primary adapter.
C5_Original ==
    (lastOp.op = "connect" /\ lastOp.pRes = "err" /\ lastOp.fRes = "err")
    => (Len(lastOp.err) = 1 /\ lastOp.err[1].from = "primary")

\* C5, amended: a connect that returns an error returns exactly one adapter
\* error: the fallback's when a fallback is configured (primary and fallback
\* both failed), the primary's when none is configured.
C5_ConnectError ==
    (lastOp.op = "connect" /\ lastOp.ret = "err")
    => /\ Len(lastOp.err) = 1
       /\ lastOp.pRes = "err"
       /\ HasFallback => (lastOp.fRes = "err" /\ lastOp.err[1].from = "fallback")
       /\ ~HasFallback => lastOp.err[1].from = "primary"

C5_Witness ==
    /\ lastOp.op = "connect" /\ lastOp.ret = "err"
    /\ lastOp.pRes = "err" /\ lastOp.fRes = "err"

\* C6 as claimed: after a connect that returned an error the status is
\* Disconnected and is_connected() is false, whatever the status was before.
C6_Original ==
    (lastOp.op = "connect" /\ lastOp.ret = "err")
    => /\ self.connection_status = "Disconnected"
       /\ ~MultiProtocolPublisher_is_connected(self)

\* C6, amended: a connect that returns an error leaves the status as it was
\* before the call; it is Disconnected, and is_connected() false, when the
\* call was made in status Disconnected.
C6_ConnectErrorKeepsStatus ==
    (lastOp.op = "connect" /\ lastOp.ret = "err")
    => /\ self.connection_status = lastOp.before
       /\ lastOp.before = "Disconnected"
            => ~MultiProtocolPublisher_is_connected(self)

C6_Witness ==
    /\ lastOp.op = "connect" /\ lastOp.ret = "err"
    /\ lastOp.before = "Connected"
    /\ self.connection_status = "Connected"

\* C7: disconnect closes the fallback even when the close of the primary
\* failed, always ends in status Disconnected, returns success exactly when
\* no close failed, and otherwise returns one error holding one entry per
\* failed close.
C7_DisconnectAggregates ==
    lastOp.op = "disconnect"
    => /\ self.connection_status = "Disconnected"
       /\ HasFallback => lastOp.fRes \in {"ok", "err"}
       /\ (lastOp.ret = "ok") <=> (lastOp.pRes # "err" /\ lastOp.fRes # "err")
       /\ (lastOp.ret = "err") <=> (lastOp.err # <<>>)
       /\ Len(lastOp.err) = (IF lastOp.pRes = "err" THEN 1 ELSE 0)
                             + (IF lastOp.fRes = "err" THEN 1 ELSE 0)
       /\ (lastOp.pRes = "err")
            <=> (\E i \in 1..Len(lastOp.err) : lastOp.err[i].from = "primary")
       /\ (lastOp.fRes = "err")
            <=> (\E i \in 1..Len(lastOp.err) : lastOp.err[i].from = "fallback")

C7_Witness ==
    /\ lastOp.op = "disconnect" /\ lastOp.ret = "err"
    /\ lastOp.pRes = "err" /\ lastOp.fRes = "err"
    /\ Len(lastOp.err) = 2
    /\ lastOp.before = "Degraded"

\* C8: in every reachable state is_connected() is true exactly when the
\* status is Connected or Degraded, and that is what a call returns.
C8_IsConnected ==
    /\ MultiProtocolPublisher_is_connected(self)
         <=> (self.connection_status \in {"Connected", "Degraded"})
    /\ lastOp.op = "is_connected"
         => (lastOp.val <=> (self.connection_status \in {"Connected", "Degraded"}))

C8_Witness ==
    /\ lastOp.op = "is_connected" /\ lastOp.val
    /\ self.connection_status = "Degraded"

\* one connect or disconnect call can take the publisher to status st
CanReach(st) == ENABLED ((Connect \/ Disconnect) /\ self'.connection_status = st)

\* C9 as claimed: a new publisher is Disconnected and from every status
\* every status can be reached, for every publisher.  Reachability is stated
\* as reachability by one call: by C9_NoTerminalStatus every status that can
\* be reached at all can be reached by one connect or disconnect.
C9_Original ==
    /\ lastOp.op = "none" => self.connection_status = "Disconnected"
    /\ ~panicked => \A st \in ConnectionStatus : CanReach(st)

\* C9, amended: a new publisher is Disconnected; while the publisher is
\* alive no status is terminal: Connected and Disconnected can always be
\* reached by one call, and so can Degraded on a publisher with a fallback;
\* a publisher without a fallback is never Degraded.
C9_NoTerminalStatus ==
    /\ lastOp.op = "none" => self.connection_status = "Disconnected"
    /\ ~panicked => /\ CanReach("Connected")
                    /\ CanReach("Disconnected")
                    /\ HasFallback => CanReach("Degraded")
    /\ ~HasFallback => self.connection_status # "Degraded"

\* disconnect() followed by connect() has returned to Connected
C9_Witness ==
    /\ lastOp.op = "connect" /\ lastOp.ret = "ok"
    /\ lastOp.before = "Disconnected"
    /\ self.connection_status = "Connected"
    /\ self.message_failures > 0
    /\ HasFallback

\* C10 as claimed: the sequence numbers of consecutive successfully
\* published messages of one publisher increase by exactly 1, whichever
\* adapter delivered them.
C10_Original ==
    LET published == SelectSeq(wire, LAMBDA f : f.part = "body") IN
    \A i \in 1..(Len(published) - 1) :
        published[i + 1].sequence_number = published[i].sequence_number + 1

\* C10, amended: on each adapter the sequence numbers of the messages it
\* published successfully start at 0 and increase by exactly 1 from one to
\* the next, whatever their message types; the primary and the fallback
\* count separately, and each counter equals the number of messages its
\* adapter has published.
C10_PerAdapterSequence ==
    /\ \A via \in {"primary", "fallback"} :
          \A i \in 1..Len(BodyFrames(via)) :
              BodyFrames(via)[i].sequence_number = i - 1
    /\ self.primary.sequence_number = Len(BodyFrames("primary"))
    /\ self.fallback.sequence_number = Len(BodyFrames("fallback"))

\* the primary published 0, the fallback 0, then the primary 1
C10_Witness ==
    /\ Len(BodyFrames("primary")) = 2
    /\ Len(BodyFrames("fallback")) = 1
    /\ wire[Len(wire)].via = "primary"
    /\ \E i \in 1..Len(wire) : wire[i].via = "fallback" /\ wire[i].part = "body"
          /\ \E j \in 1..(i - 1) : wire[j].via = "primary" /\ wire[j].part = "body"

\* ============================================ AdapterSpec: one adapter
\* the values the publisher's variables keep in the other specifications
NotPubInit ==
    /\ self = MultiProtocolPublisher_new("ZeroMQ", "None")
    /\ wire = <<>>
    /\ lastOp = NoOp
    /\ panicked = FALSE

\* the variables of the other specifications
notAdapterVars == <<pubVars, engineVars, stageVars>>

AdapterInit ==
    /\ \/ \E c \in CompressionStrategy : adapter = ModAdapter_new(c)
       \/ \E h \in 0..MaxInterval : adapter = ZmqPub_new(h, 0)
    /\ clock = 0
    /\ sent = <<>>
    /\ payload \in [serialized_len : 1..MaxPayload, codec_len : 1..(MaxPayload + 1)]
    /\ adapter.compression = "None" => payload.codec_len = payload.serialized_len
    /\ adapter.impl = "zmq_pub" => payload.serialized_len = 1
    /\ lastPublish = NoPublish
    /\ NotPubInit
    /\ NotEngineInit
    /\ NotStageInit

\* publish_perception_frame on a ZmqPublisher of mod.rs
ModPublish ==
    /\ adapter.impl = "mod"
    /\ \E outcome \in PublishOutcome :
          LET n == payload.serialized_len
              clen == compress_data(adapter.compression, n, payload.codec_len)
              env == MessageEnvelope(adapter, "PerceptionFrame", n, clen)
              r == ZmqPublisher_publish_perception_frame(adapter, "primary", outcome)
              fr == ModFrames(r.frames, env, clen)
          IN  /\ r.ad.sequence_number <= MaxSeq
              /\ Len(sent) + Len(fr) <= MaxWire
              /\ adapter' = r.ad
              /\ sent' = sent \o fr
              /\ lastPublish' =
                   [NoPublish EXCEPT !.op = "publish", !.ret = r.ret,
                        !.outcome = outcome,
                        !.seqBefore = adapter.sequence_number,
                        !.sentBefore = Len(sent),
                        !.serialized_len = n, !.compressed_len = clen,
                        !.dataSent = (r.ret = "ok")]
    /\ UNCHANGED <<clock, payload>>
    /\ UNCHANGED notAdapterVars

\* connect on a ZmqPublisher of mod.rs
ModConnect ==
    /\ adapter.impl = "mod"
    /\ \E outcome \in IoOutcome :
          adapter' = ZmqPublisher_connect(adapter, outcome).ad
    /\ UNCHANGED <<clock, sent, payload, lastPublish>>
    /\ UNCHANGED notAdapterVars

\* disconnect on a ZmqPublisher of mod.rs
ModDisconnect ==
    /\ adapter.impl = "mod"
    /\ adapter' = ZmqPublisher_disconnect(adapter).ad
    /\ UNCHANGED <<clock, sent, payload, lastPublish>>
    /\ UNCHANGED notAdapterVars

\* publish on a ZmqPublisher of zmq_pub.rs
ZmqPubPublish ==
    /\ adapter.impl = "zmq_pub"
    /\ \E outcome \in ZmqPubOutcome, hbOutcome \in ZmqPubOutcome :
          LET r == ZmqPub_publish(adapter, clock, outcome, hbOutcome) IN
          /\ r.ad.sequence_number <= MaxSeq
          /\ Len(sent) + Len(r.frames) <= MaxWire
          /\ adapter' = r.ad
          /\ sent' = sent \o r.frames
          /\ lastPublish' =
               [NoPublish EXCEPT !.op = "publish", !.ret = r.ret,
                    !.outcome = outcome,
                    !.hbOutcome = IF r.hbAttempted THEN hbOutcome ELSE "none",
                    !.seqBefore = adapter.sequence_number,
                    !.sentBefore = Len(sent),
                    !.elapsed = clock - adapter.last_heartbeat,
                    !.dataSent = r.dataSent, !.hbAttempted = r.hbAttempted]
    /\ UNCHANGED <<clock, payload>>
    /\ UNCHANGED notAdapterVars

\* half a second passes
Tick ==
    /\ adapter.impl = "zmq_pub"
    /\ clock < MaxClock
    /\ clock' = clock + 1
    /\ UNCHANGED <<adapter, sent, payload, lastPublish>>
    /\ UNCHANGED notAdapterVars

AdapterNext == ModPublish \/ ModConnect \/ ModDisconnect \/ ZmqPubPublish \/ Tick

AdapterSpec == AdapterInit /\ [][AdapterNext]_adapterVars

\* the frames the last publish handed to the socket
Added == SubSeq(sent, lastPublish.sentBefore + 1, Len(sent))

\* the steps of a publish that come before its first send
PreSendFailure == {"serialize_fail", "compress_fail", "envelope_fail"}

\* C11: a publish in which serialization, compression or the construction
\* of the envelope failed has handed no frame to the socket and has left the
\* sequence number; a frame is sent only when all three steps succeeded, and
\* a heartbeat whose serialization failed has sent no heartbeat frame.
C11_BuiltBeforeSend ==
    lastPublish.op = "publish"
    => /\ lastPublish.outcome \in PreSendFailure
            => /\ lastPublish.ret = "err"
               /\ Added = <<>>
               /\ adapter.sequence_number = lastPublish.seqBefore
       /\ Added # <<>> => lastPublish.outcome \notin PreSendFailure
       /\ lastPublish.hbOutcome = "serialize_fail"
            => \A i \in 1..Len(Added) : Added[i].message_type # "heartbeat"

\* compression failed on a connected adapter that had published a message
C11_Witness ==
    /\ lastPublish.op = "publish" /\ lastPublish.outcome = "compress_fail"
    /\ adapter.impl = "mod" /\ adapter.socket
    /\ adapter.sequence_number = 1 /\ Len(sent) = 2

\* C12: heartbeats of the zmq_pub adapter: nothing is sent outside a
\* publish; a heartbeat frame always follows the two frames of a data message
\* of the same publish; a publish sends at most one heartbeat; a publish
\* attempts the heartbeat exactly when it sent its data message and the time
\* since the last heartbeat is at least heartbeat_interval, and the
\* heartbeat is on the wire exactly when that attempt's sends succeeded.
C12_HeartbeatCadence ==
    adapter.impl = "zmq_pub"
    => /\ lastPublish.op = "none" => sent = <<>>
       /\ \A i \in 1..Len(sent) :
             (sent[i].part = "envelope" /\ sent[i].message_type = "heartbeat")
             => /\ i > 2
                /\ (i = lastPublish.sentBefore + 3 \/ i <= lastPublish.sentBefore)
                /\ sent[i - 1].part = "body"
                /\ sent[i - 1].message_type = "perception_frame"
                /\ sent[i - 2].part = "envelope"
                /\ sent[i - 2].message_type = "perception_frame"
       /\ Cardinality({i \in 1..Len(Added) :
             Added[i].part = "envelope" /\ Added[i].message_type = "heartbeat"}) <= 1
       /\ lastPublish.op = "publish"
            => /\ lastPublish.hbAttempted
                    <=> /\ lastPublish.dataSent
                        /\ lastPublish.elapsed >= 2 * adapter.heartbeat_interval_sec
               /\ (\E i \in 1..Len(Added) :
                        Added[i].part = "body" /\ Added[i].message_type = "heartbeat")
                    <=> (lastPublish.hbAttempted /\ lastPublish.hbOutcome = "ok")

\* a publish sent the heartbeat at exactly the interval, after an earlier
\* publish that sent none
C12_Witness ==
    /\ adapter.impl = "zmq_pub" /\ adapter.heartbeat_interval_sec = 1
    /\ lastPublish.op = "publish" /\ lastPublish.ret = "ok"
    /\ lastPublish.hbAttempted /\ lastPublish.elapsed = 2
    /\ Len(sent) = 6
    /\ sent[3].message_type = "perception_frame"
    /\ sent[6].message_type = "heartbeat"

\* C13: every envelope of a mod.rs adapter carries the tag of the adapter's
\* algorithm, which never changes; its compressed_size is the length of the
\* body sent after it, its original_size the length of the serialized
\* payload; with algorithm None the two sizes are equal.
C13_EnvelopeSizes ==
    adapter.impl = "mod"
    => /\ \A i \in 1..Len(sent) :
             sent[i].part = "envelope"
             => /\ sent[i].envelope.compression = to_string(adapter.compression)
                /\ adapter.compression = "None"
                     => sent[i].envelope.compressed_size = sent[i].envelope.original_size
                /\ (i < Len(sent) /\ sent[i + 1].part = "body")
                     => sent[i + 1].len = sent[i].envelope.compressed_size
       /\ Added # <<>>
            => /\ Added[1].part = "envelope"
               /\ Added[1].envelope.original_size = lastPublish.serialized_len
               /\ Added[1].envelope.compressed_size = lastPublish.compressed_len

\* a codec whose output is longer than the payload
C13_Witness ==
    /\ adapter.impl = "mod" /\ adapter.compression = "Lz4"
    /\ lastPublish.op = "publish" /\ lastPublish.ret = "ok"
    /\ lastPublish.compressed_len > lastPublish.serialized_len
    /\ Len(sent) = 4

\* ============================================ EngineSpec: the OrtEngine
\* the variables of the other specifications
notEngineVars == <<pubVars, adapterVars, stageVars>>

\* the optional models of the configuration
OptionalModels == {"segmentation", "robot_identification"}

\* the optional models a configuration loads: none, one, or both
LoadedOptional == {{}, {"robot_identification"}, OptionalModels}

\* the names a caller passes to switch_model
SwitchNames == ModelNames \cup {"unknown"}

\* the frames a camera delivers: size, and how much its timestamp is ahead
\* of the engine's clock
FrameShapes ==
    {[width |-> 640, height |-> 480, ahead |-> 0],
     [width |-> 1280, height |-> 720, ahead |-> 1]}

EngineInit ==
    /\ engine \in {OrtEngine_new(optional, max_batch_size, batch_timeout) :
                     optional \in LoadedOptional,
                     max_batch_size \in {1, MaxFrames},
                     batch_timeout \in {0, MaxTime}}
    /\ time = 0
    /\ arrivals = <<>>
    /\ lastCall = NoCall
    /\ lastDispatch = NoDispatch
    /\ NotPubInit
    /\ NotAdapterInit
    /\ NotStageInit

\* the sequence numbers of a batch
SequenceNums(batch) == {batch[i].sequence_num : i \in 1..Len(batch)}

\* process_frame on the engine: the camera numbers its frames 1, 2, ...
ProcessFrame ==
    /\ Len(arrivals) < MaxFrames
    /\ \E shape \in FrameShapes, outcome \in BatchOutcome :
          LET frame == CameraFrame(Len(arrivals) + 1, time + shape.ahead,
                                   shape.width, shape.height)
              r == process_frame(engine, frame, time, outcome)
              oldest == IF engine.pending_frames = <<>> THEN time
                        ELSE engine.pending_frames[1].at
              arrived == Append(arrivals, [at |-> time, flushedAt |-> -1])
          IN  /\ engine' = r.e
              /\ arrivals' =
                   [i \in 1..Len(arrived) |->
                      IF i \in SequenceNums(r.batch)
                      THEN [arrived[i] EXCEPT !.flushedAt = time]
                      ELSE arrived[i]]
              /\ lastCall' =
                   [NoCall EXCEPT !.op = "process_frame", !.ret = r.ret,
                        !.err = r.err, !.frame = frame,
                        !.batch = r.batch, !.result = r.result,
                        !.dispatched = r.dispatched, !.flushed = r.flushed,
                        !.due = r.due, !.peak = r.peak, !.age = time - oldest,
                        !.outcome = outcome,
                        !.after_error = (lastCall.op = "process_frame"
                                         /\ lastCall.ret = "err")]
              /\ lastDispatch' =
                   IF r.dispatched
                   THEN [model |-> r.model, batch_size |-> Len(r.batch)]
                   ELSE lastDispatch
    /\ UNCHANGED time
    /\ UNCHANGED notEngineVars

\* switch_model on the engine
SwitchModel ==
    /\ \E model_name \in SwitchNames :
          LET r == switch_model(engine, model_name) IN
          /\ engine' = r.e
          /\ lastCall' =
               [NoCall EXCEPT !.op = "switch_model", !.ret = r.ret,
                    !.err = r.err, !.model_name = model_name]
    /\ UNCHANGED <<time, arrivals, lastDispatch>>
    /\ UNCHANGED notEngineVars

\* one tick passes
EngineTick ==
    /\ time < MaxTime
    /\ time' = time + 1
    /\ UNCHANGED <<engine, arrivals, lastCall, lastDispatch>>
    /\ UNCHANGED notEngineVars

EngineNext == ProcessFrame \/ SwitchModel \/ EngineTick

EngineSpec == EngineInit /\ [][EngineNext]_engineVars

\* C14: a pending batch is flushed only when its length has reached
\* max_batch_size or the age of its oldest frame has reached batch_timeout;
\* a single frame with a larger max_batch_size is not dispatched before its
\* age reaches batch_timeout.
C14_FlushOnlyWhenDue ==
    (lastCall.op = "process_frame" /\ lastCall.flushed)
    => \/ lastCall.peak >= engine.max_batch_size
       \/ lastCall.age >= engine.batch_timeout

\* C15: max_batch_size frames submitted back-to-back, within less than
\* batch_timeout of the first, have all been flushed before batch_timeout
\* has elapsed since the first of them arrived (four frames when
\* max_batch_size = 4).
C15_SizeFlush ==
    LET n == engine.max_batch_size IN
    \A k \in 1..Len(arrivals) :
       (/\ k + n - 1 <= Len(arrivals)
        /\ arrivals[k + n - 1].at - arrivals[k].at < engine.batch_timeout)
       => \A i \in k..(k + n - 1) :
             /\ arrivals[i].flushedAt >= arrivals[i].at
             /\ arrivals[i].flushedAt - arrivals[k].at < engine.batch_timeout

\* four frames arrived at the same tick with max_batch_size = 4, and the
\* fourth was dispatched to inference
C15_Witness ==
    /\ engine.max_batch_size = 4 /\ engine.batch_timeout = 1
    /\ Len(arrivals) = 4
    /\ \A i \in 1..4 : arrivals[i].at = 0 /\ arrivals[i].flushedAt = 0
    /\ lastCall.op = "process_frame" /\ lastCall.dispatched
    /\ lastCall.frame.sequence_num = 4

\* C16: the pending batch never holds more than max_batch_size frames,
\* neither between two calls nor inside a process_frame call after its
\* push, whether the call succeeds or fails.
C16_PendingBounded ==
    /\ Len(engine.pending_frames) <= engine.max_batch_size
    /\ lastCall.op = "process_frame" => lastCall.peak <= engine.max_batch_size

\* max_batch_size = 1: a frame is pushed after a call whose flush failed
C16_Witness ==
    /\ engine.max_batch_size = 1
    /\ lastCall.op = "process_frame" /\ lastCall.peak = 1
    /\ lastCall.frame.sequence_num = 3
    /\ lastCall.err = OtherError("preprocess")
    /\ arrivals[2].flushedAt = arrivals[2].at

\* C17: a flush of an empty pending batch returns InferenceError "No frames
\* to process" and changes nothing; every flush a process_frame call makes
\* finds at least the frame just pushed.
C17_EmptyFlush ==
    /\ engine.pending_frames = <<>>
         => \A outcome \in BatchOutcome :
               LET r == process_batch(engine, outcome) IN
               /\ r.ret = "err"
               /\ r.err = InferenceError("No frames to process")
               /\ r.e = engine /\ ~r.dispatched
    /\ (lastCall.op = "process_frame" /\ lastCall.flushed)
         => /\ lastCall.peak >= 1
            /\ lastCall.batch # <<>>
            /\ lastCall.err # InferenceError("No frames to process")
            /\ lastCall.err # InferenceError("Empty batch")

\* the pending batch is empty after a call whose flush failed in inference
C17_Witness ==
    /\ engine.pending_frames = <<>>
    /\ lastCall.op = "process_frame" /\ lastCall.flushed
    /\ lastCall.err = InferenceError("Inference failed")
    /\ Len(arrivals) = 2

C19_SwitchAffectsNextBatch ==
    [][/\ (lastCall'.op = "switch_model" /\ lastCall' # lastCall)
            => /\ lastDispatch' = lastDispatch
               /\ lastCall'.ret = "ok" => engine'.current_model = lastCall'.model_name
       /\ lastDispatch' # lastDispatch
            => lastCall'.op = "process_frame" /\ lastCall'.dispatched
       /\ (lastCall'.op = "process_frame" /\ lastCall' # lastCall
              /\ lastCall'.dispatched)
            => /\ lastDispatch'.model = engine.current_model
               /\ lastDispatch'.batch_size = Len(lastCall'.batch)
               /\ engine'.current_model = engine.current_model]_engineVars

\* a batch ran on "robot_identification" after an earlier frame
C19_Witness ==
    /\ lastCall.op = "process_frame" /\ lastCall.ret = "ok"
    /\ lastDispatch.model = "robot_identification"
    /\ lastCall.frame.sequence_num = 2
    /\ arrivals[1].flushedAt = 0
    /\ engine.current_model = "robot_identification"

\* C20: switch_model with a name the registry does not hold returns
\* InferenceError and leaves current_model and the registry; with a name of
\* the registry it returns Ok and current_model is that name.
C20_SwitchModel ==
    [][(lastCall'.op = "switch_model" /\ lastCall' # lastCall)
        => LET model_name == lastCall'.model_name IN
           /\ get_available_models(engine') = get_available_models(engine)
           /\ model_name \notin get_available_models(engine)
                => /\ lastCall'.ret = "err"
                   /\ lastCall'.err.kind = "InferenceError"
                   /\ engine'.current_model = engine.current_model
           /\ model_name \in get_available_models(engine)
                => /\ lastCall'.ret = "ok"
                   /\ engine'.current_model = model_name]_engineVars

\* a switch to a model that was not configured failed after a batch had run
\* on another optional model, which current_model still names
C20_Witness ==
    /\ lastCall.op = "switch_model" /\ lastCall.ret = "err"
    /\ lastCall.model_name = "segmentation"
    /\ "segmentation" \notin engine.sessions
    /\ engine.current_model = "robot_identification"
    /\ lastDispatch.model = "robot_identification"

\* C21: a process_frame that follows a process_frame that failed finds the
\* engine as the failed call found it (no frame left pending, the registry
\* and current_model as they were); when its own steps do not fail it
\* returns Ok with a PerceptionFrame of its own frame, from a batch that
\* holds that frame alone.
C21_BatchFailureIsolation ==
    /\ (lastCall.op = "process_frame" /\ lastCall.ret = "err")
         => /\ lastCall.err.kind \in {"InferenceError", "Other"}
            /\ engine.pending_frames = <<>>
            /\ engine.current_model \in engine.sessions
    /\ (lastCall.op = "process_frame" /\ lastCall.after_error
          /\ lastCall.outcome = "ok")
         => /\ lastCall.ret = "ok"
            /\ lastCall.batch = <<lastCall.frame>>
            /\ lastCall.result.sequence_num = lastCall.frame.sequence_num

\* the frame after one whose tensor extraction failed was processed
C21_Witness ==
    /\ lastCall.op = "process_frame" /\ lastCall.after_error
    /\ lastCall.ret = "ok" /\ lastCall.frame.sequence_num = 2
    /\ lastDispatch.model = "detection"

\* ================== DetectSpec: the postprocessing of one item of a batch
\* the f32 values of the output tensor and of the thresholds are written in
\* tenths: Unit is 1.0
Unit == 10

\* the variables of the other specifications
notDetectVars == <<pubVars, adapterVars, engineVars, pipe, mgr, node, lateVars>>

\* one row of the output tensor: [x, y, w, h, confidence, class scores...]
Candidate(x, y, w, h, confidence, scores) ==
    [x |-> x, y |-> y, w |-> w, h |-> h, confidence |-> confidence,
     scores |-> scores]

\* rows a model can write: boxes that overlap, a box apart, a box of
\* negative width; objectness below, at and above the threshold; class
\* scores with the maximum first, last, tied, and all negative
Candidates ==
    {Candidate(5, 5, 2, 4, 10, <<10, 5>>),
     Candidate(5, 5, 4, 4, 10, <<5, 0>>),
     Candidate(5, 5, 2, 4, 5, <<5, 10>>),
     Candidate(5, 5, 2, 4, 5, <<5, 0>>),
     Candidate(5, 5, 2, 4, 4, <<10, 10>>),
     Candidate(2, 2, 2, 2, 10, <<10, 5>>),
     Candidate(6, 5, 4, 4, 8, <<10, 5>>),
     Candidate(5, 5, -2, 4, 10, <<10, 0>>),
     Candidate(5, 5, 2, 4, 10, <<-5, -5>>)}

\* BBox::new (common/src/types.rs), in twentieths of a pixel
BBox_new(xmin, ymin, xmax, ymax) ==
    [xmin |-> xmin, ymin |-> ymin, xmax |-> xmax, ymax |-> ymax]

\* BBox::width, BBox::height, BBox::area
BBox_width(b) == b.xmax - b.xmin

BBox_height(b) == b.ymax - b.ymin

BBox_area(b) == BBox_width(b) * BBox_height(b)

\* the loop over the classes (ort_engine.rs 239-249): max_score starts at
\* 0.0 and max_class at 0; a score replaces the maximum when it is greater
RECURSIVE max_class_from(_, _, _, _)
max_class_from(scores, c, max_class, max_score) ==
    IF c > Len(scores) THEN [max_class |-> max_class, max_score |-> max_score]
    ELSE IF scores[c] > max_score
         THEN max_class_from(scores, c + 1, c - 1, scores[c])
         ELSE max_class_from(scores, c + 1, max_class, max_score)

\* one pass of the loop over the candidates (ort_engine.rs 219-272): the
\* Detection of candidate j, or nothing when a threshold test skips it.
\* confidence is in hundredths (a product of two values in tenths); the
\* field candidate remembers the row the Detection was decoded from
decode_candidate(cand, j, confidence_threshold, width, height) ==
    IF cand.confidence < confidence_threshold THEN <<>>
    ELSE
        LET m == max_class_from(cand.scores, 1, 0, 0)
            final_confidence == cand.confidence * m.max_score
        IN  IF final_confidence < confidence_threshold * Unit THEN <<>>
            ELSE <<[bbox |-> BBox_new((2 * cand.x - cand.w) * width,
                                      (2 * cand.y - cand.h) * height,
                                      (2 * cand.x + cand.w) * width,
                                      (2 * cand.y + cand.h) * height),
                    confidence |-> final_confidence,
                    class_id |-> m.max_class,
                    candidate |-> j]>>

\* the detections of one frame before NMS, in the order of the candidates
RECURSIVE decode_from(_, _, _, _, _)
decode_from(cands, j, confidence_threshold, width, height) ==
    IF j > Len(cands) THEN <<>>
    ELSE decode_candidate(cands[j], j, confidence_threshold, width, height)
         \o decode_from(cands, j + 1, confidence_threshold, width, height)

decode(cands, confidence_threshold, width, height) ==
    decode_from(cands, 1, confidence_threshold, width, height)

Max2(a, b) == IF a >= b THEN a ELSE b

Min2(a, b) == IF a <= b THEN a ELSE b

\* the area two boxes share
intersection(a, b) ==
    Max2(0, Min2(a.xmax, b.xmax) - Max2(a.xmin, b.xmin))
    * Max2(0, Min2(a.ymax, b.ymax) - Max2(a.ymin, b.ymin))

\* IoU(a, b) > nms_threshold, as the f32 division decides it: a division by
\* a negative union turns the comparison, x / 0 is infinite and 0 / 0 is NaN
iou_exceeds(a, b, nms_threshold) ==
    LET inter == intersection(a, b)
        union == BBox_area(a) + BBox_area(b) - inter
    IN  IF union > 0 THEN inter * Unit > nms_threshold * union
        ELSE IF union < 0 THEN inter * Unit < nms_threshold * union
        ELSE inter > 0

\* the position of the first detection of the greatest confidence
first_best(dets) ==
    CHOOSE i \in 1..Len(dets) :
        /\ \A k \in 1..Len(dets) : dets[k].confidence <= dets[i].confidence
        /\ \A k \in 1..(i - 1) : dets[k].confidence < dets[i].confidence

without(dets, i) == SubSeq(dets, 1, i - 1) \o SubSeq(dets, i + 1, Len(dets))

\* the detections by descending confidence, equal ones in their order
RECURSIVE sort_descending(_)
sort_descending(dets) ==
    IF dets = <<>> THEN <<>>
    ELSE <<dets[first_best(dets)]>>
         \o sort_descending(without(dets, first_best(dets)))

\* the greedy pass: a detection is kept unless a kept one of its class
\* overlaps it by more than nms_threshold
RECURSIVE keep_from(_, _, _, _)
keep_from(sorted, i, kept, nms_threshold) ==
    IF i > Len(sorted) THEN kept
    ELSE IF \E k \in 1..Len(kept) :
               /\ kept[k].class_id = sorted[i].class_id
               /\ iou_exceeds(kept[k].bbox, sorted[i].bbox, nms_threshold)
         THEN keep_from(sorted, i + 1, kept, nms_threshold)
         ELSE keep_from(sorted, i + 1, Append(kept, sorted[i]), nms_threshold)

\* a suppression whose loop stops one detection short
C23_apply_nms_skips_last(dets, nms_threshold) ==
    LET sorted == sort_descending(dets) IN
    keep_from(SubSeq(sorted, 1, Len(sorted) - 1), 1, <<>>, nms_threshold)

\* OrtEngine::apply_nms: non-max suppression by class
apply_nms(dets, nms_threshold) ==
    keep_from(sort_descending(dets), 1, <<>>, nms_threshold)

\* sequences of at most n candidates
CandidateLists(n) == UNION {[1..k -> Candidates] : k \in 0..n}

\* the detections of a sequence, as a set
Emitted(dets) == {dets[i] : i \in 1..Len(dets)}

DetectInit ==
    /\ det \in [stage : {"tensor"},
                confidence_threshold : {0, 5},
                nms_threshold : {0, 5},
                shape : FrameShapes,
                candidates : CandidateLists(MaxCandidates),
                detections : {<<>>},
                before : {<<>>},
                nms_runs : {0}]
    /\ NotPubInit
    /\ NotAdapterInit
    /\ NotEngineInit
    /\ NotPipelineInit
    /\ NotManagerInit
    /\ NotNodeInit
    /\ NotLateInit

\* the loop over the candidates of the frame
Decode ==
    /\ det.stage = "tensor"
    /\ det' = [det EXCEPT !.stage = "decoded",
                 !.detections = decode(det.candidates, det.confidence_threshold,
                                       det.shape.width, det.shape.height)]
    /\ UNCHANGED notDetectVars

\* apply_nms on the detections of the frame, and once more on its result
ApplyNms ==
    /\ det.stage \in {"decoded", "suppressed"}
    /\ det.nms_runs < 2
    /\ det' = [det EXCEPT !.stage = "suppressed",
                 !.before = det.detections,
                 !.detections = apply_nms(det.detections, det.nms_threshold),
                 !.nms_runs = @ + 1]
    /\ UNCHANGED notDetectVars

DetectNext == Decode \/ ApplyNms

DetectSpec == DetectInit /\ [][DetectNext]_det

\* the greatest of the class scores of a candidate
max_class_score(scores) ==
    CHOOSE v \in {scores[c] : c \in 1..Len(scores)} :
        \A c \in 1..Len(scores) : scores[c] <= v

\* C22: every Detection emitted has confidence = obj_conf * max_class_score
\* of the candidate it was decoded from, with confidence >= the threshold
\* and obj_conf >= the threshold.
C22_EmittedAboveThreshold ==
    det.stage \in {"decoded", "suppressed"}
    => \A d \in Emitted(det.detections) :
          LET cand == det.candidates[d.candidate] IN
          /\ d.confidence = cand.confidence * max_class_score(cand.scores)
          /\ d.confidence >= det.confidence_threshold * Unit
          /\ cand.confidence >= det.confidence_threshold

\* C23: NMS applied to the detections NMS returned yields the same set of
\* detections.
C23_NmsIdempotent ==
    det.nms_runs = 2 => Emitted(det.detections) = Emitted(det.before)

\* three detections were decoded, the first NMS suppressed one of them, and
\* the second NMS ran on the two that were left
C23_Witness ==
    /\ det.nms_runs = 2
    /\ Len(decode(det.candidates, det.confidence_threshold,
                  det.shape.width, det.shape.height)) = 3
    /\ Len(det.before) = 2
    /\ Len(det.detections) = 2

\* C24: the BBox of every Detection has xmax >= xmin and ymax >= ymin, and
\* its width, height and area are not negative.
C24_BBoxOrdered ==
    \A d \in Emitted(det.detections) :
       /\ d.bbox.xmax >= d.bbox.xmin
       /\ d.bbox.ymax >= d.bbox.ymin
       /\ BBox_width(d.bbox) >= 0
       /\ BBox_height(d.bbox) >= 0
       /\ BBox_area(d.bbox) >= 0

\* ======== PipelineSpec: one camera, its channel and the consumer of it
\* mpsc::channel(10) of GStreamerCamera::new
ChannelCapacity == 10

\* the variables of the other specifications
notPipelineVars == <<pubVars, adapterVars, engineVars, det, mgr, node, lateVars>>

\* the points at which one on_new_sample can end: the sample, its buffer,
\* its caps, the video info or the mapping of the buffer fails, or the frame
\* is built
SampleOutcome == {"sample_fail", "ok"}

\* GStreamerCamera::new: a channel of ChannelCapacity frames, nothing
\* numbered yet; the consumer holds no frame
GStreamerCamera_new ==
    [stage |-> "capturing",
     sequence_num |-> 0,
     channel |-> <<>>,
     callback |-> "none",
     dropped |-> 0,
     inflight |-> <<>>,
     result |-> <<>>,
     last_received |-> 0,
     last_processed |-> 0,
     last_published |-> 0]

\* Sender::try_send: the frame is queued when the channel has room and
\* refused when it is full; the caller is not suspended
try_send(channel, frame) ==
    IF Len(channel) < ChannelCapacity
    THEN [ret |-> "ok", channel |-> Append(channel, frame)]
    ELSE [ret |-> "full", channel |-> channel]

\* a callback that waits for room in the channel
C25_on_new_sample_waits(p, outcome) ==
    IF outcome = "sample_fail" THEN [p EXCEPT !.callback = "err"]
    ELSE
        LET current_seq == p.sequence_num + 1
            frame == CameraFrame(current_seq, current_seq, 640, 480)
        IN  IF Len(p.channel) < ChannelCapacity
            THEN [p EXCEPT !.sequence_num = current_seq,
                           !.channel = Append(@, frame), !.callback = "sent"]
            ELSE [p EXCEPT !.sequence_num = current_seq, !.callback = "blocked"]

\* a callback that does not advance the counter
C26_on_new_sample_no_increment(p, outcome) ==
    IF outcome = "sample_fail" THEN [p EXCEPT !.callback = "err"]
    ELSE
        LET current_seq == p.sequence_num
            frame == CameraFrame(current_seq, current_seq, 640, 480)
            offered == try_send(p.channel, frame)
        IN  [p EXCEPT !.channel = offered.channel,
                      !.callback = IF offered.ret = "ok" THEN "sent" ELSE "discarded",
                      !.dropped = IF offered.ret = "ok" THEN @ ELSE @ + 1]

\* GStreamerCamera::on_new_sample: an early return when the sample cannot
\* be read; otherwise the counter is advanced under its lock, the frame is
\* built with the new number and offered to the channel; a refused frame is
\* logged and discarded, and the callback returns Ok
on_new_sample(p, outcome) ==
    IF outcome = "sample_fail" THEN [p EXCEPT !.callback = "err"]
    ELSE
        LET current_seq == p.sequence_num + 1
            frame == CameraFrame(current_seq, current_seq, 640, 480)
            offered == try_send(p.channel, frame)
        IN  [p EXCEPT !.sequence_num = current_seq,
                      !.channel = offered.channel,
                      !.callback = IF offered.ret = "ok" THEN "sent" ELSE "discarded",
                      !.dropped = IF offered.ret = "ok" THEN @ ELSE @ + 1]

\* Receiver::recv of the consumer: the oldest frame of the channel
recv(p) ==
    [p EXCEPT !.inflight = <<Head(p.channel)>>, !.channel = Tail(@),
              !.last_received = Head(p.channel).sequence_num]

\* the consumer hands the frame it holds to OrtEngine::process_frame and
\* keeps the PerceptionFrame it returns, or drops the frame on an error
consumer_process(p, outcome) ==
    LET r == process_frame(OrtEngine_new({}, 1, 0), p.inflight[1], 0, outcome) IN
    [p EXCEPT !.inflight = <<>>,
              !.last_processed = p.inflight[1].sequence_num,
              !.result = IF r.ret = "ok" THEN <<r.result>> ELSE <<>>]

\* the consumer publishes the PerceptionFrame it holds; a failed publish
\* loses it
consumer_publish(p, outcome) ==
    [p EXCEPT !.result = <<>>,
              !.last_published = IF outcome = "ok" THEN p.result[1].sequence_num
                                 ELSE @]

PipelineInit ==
    /\ pipe = GStreamerCamera_new
    /\ NotPubInit
    /\ NotAdapterInit
    /\ NotEngineInit
    /\ NotDetectInit
    /\ NotManagerInit
    /\ NotNodeInit
    /\ NotLateInit

\* the capture pipeline calls the callback with a new sample
OnNewSample ==
    /\ pipe.callback # "blocked"
    /\ pipe.sequence_num < MaxCaptured
    /\ \E outcome \in SampleOutcome : pipe' = on_new_sample(pipe, outcome)
    /\ UNCHANGED notPipelineVars

\* the consumer takes the next frame
Recv ==
    /\ pipe.inflight = <<>> /\ pipe.result = <<>>
    /\ pipe.channel # <<>>
    /\ pipe' = recv(pipe)
    /\ UNCHANGED notPipelineVars

\* the consumer runs the engine on the frame it took
Process ==
    /\ pipe.inflight # <<>>
    /\ \E outcome \in BatchOutcome : pipe' = consumer_process(pipe, outcome)
    /\ UNCHANGED notPipelineVars

\* the consumer publishes the result
PublishResult ==
    /\ pipe.result # <<>>
    /\ \E outcome \in IoOutcome : pipe' = consumer_publish(pipe, outcome)
    /\ UNCHANGED notPipelineVars

PipelineNext == OnNewSample \/ Recv \/ Process \/ PublishResult

PipelineSpec == PipelineInit /\ [][PipelineNext]_pipe

\* C25: the channel never holds more than its capacity; a callback is never
\* left waiting for the consumer; a callback that found the channel full
\* discarded its frame and returned; and whatever the channel holds, the
\* capture side can complete its next callback.
C25_ProducerNeverBlocks ==
    /\ Len(pipe.channel) <= ChannelCapacity
    /\ pipe.callback # "blocked"
    /\ pipe.callback = "discarded" => pipe.dropped >= 1
    /\ pipe.sequence_num < MaxCaptured => ENABLED OnNewSample

\* the channel is full and the last callback discarded its frame
C25_Witness ==
    /\ Len(pipe.channel) = ChannelCapacity
    /\ pipe.callback = "discarded"
    /\ pipe.dropped = 1
    /\ pipe.last_received = 0

notManagerVars == <<pubVars, adapterVars, engineVars, det, pipe, node, lateVars>>

CameraIds == 1..MaxCameras

\* GStreamerCamera::new, as far as start and stop read it: not running, the
\* sender of the channel not yet handed to a callback, no pipeline
Camera_new == [is_running |-> FALSE, frame_tx |-> TRUE, pipeline |-> FALSE]

\* how far one start gets: gstreamer::init, build_pipeline or setup_appsink
\* fails, or set_state(Playing) fails, or all of it succeeds
StartOutcome == {"setup_fail", "play_fail", "ok"}

\* what set_state(Null) answers
StopOutcome == {"null_fail", "ok"}

\* a start that does not look at is_running
C27_start_without_guard(cam, outcome) ==
    IF outcome = "setup_fail" THEN [ret |-> "err", cam |-> cam]
    ELSE IF ~cam.frame_tx THEN [ret |-> "err", cam |-> cam]
    ELSE IF outcome = "play_fail"
    THEN [ret |-> "err", cam |-> [cam EXCEPT !.frame_tx = FALSE]]
    ELSE [ret |-> "ok",
          cam |-> [is_running |-> TRUE, frame_tx |-> FALSE, pipeline |-> TRUE]]

\* GStreamerCamera::start: Ok at once when running; an error of the set-up
\* leaves the camera as it was; the sender is taken out of the camera, and
\* a camera whose sender is gone fails; a pipeline that does not reach
\* Playing fails after the sender was taken; otherwise the pipeline is
\* stored and the camera runs
start(cam, outcome) ==
    IF cam.is_running THEN [ret |-> "ok", cam |-> cam]
    ELSE IF outcome = "setup_fail" THEN [ret |-> "err", cam |-> cam]
    ELSE IF ~cam.frame_tx THEN [ret |-> "err", cam |-> cam]
    ELSE IF outcome = "play_fail"
    THEN [ret |-> "err", cam |-> [cam EXCEPT !.frame_tx = FALSE]]
    ELSE [ret |-> "ok",
          cam |-> [is_running |-> TRUE, frame_tx |-> FALSE, pipeline |-> TRUE]]

\* GStreamerCamera::stop: Ok at once when not running; a pipeline that does
\* not reach Null fails and the camera stays running; otherwise the main
\* loop is quit and the camera no longer runs
stop(cam, outcome) ==
    IF ~cam.is_running THEN [ret |-> "ok", cam |-> cam]
    ELSE IF cam.pipeline /\ outcome = "null_fail" THEN [ret |-> "err", cam |-> cam]
    ELSE [ret |-> "ok", cam |-> [cam EXCEPT !.is_running = FALSE]]

\* what becomes of one configuration: it is disabled, or create_camera
\* fails on it, or the camera is created
ConfigOutcome == {"disabled", "create_fail", "ok"}

\* MultiCameraManager::new: a disabled configuration is skipped, a camera
\* that cannot be created is logged and left out, every other camera is
\* inserted; the manager itself is always returned
MultiCameraManager_new(configs) ==
    [ret |-> "ok",
     cameras |-> [c \in {k \in DOMAIN configs : configs[k] = "ok"} |-> Camera_new]]

\* the least camera whose call fails, or 0
first_failure(results) ==
    IF \E c \in DOMAIN results : results[c].ret = "err"
    THEN CHOOSE c \in DOMAIN results :
            /\ results[c].ret = "err"
            /\ \A k \in DOMAIN results : results[k].ret = "err" => c <= k
    ELSE 0

\* a start_all that returns the first error
C28_start_all_returns_first_error(cameras, outcomes) ==
    LET each == [c \in DOMAIN cameras |-> start(cameras[c], outcomes[c])]
        stopat == first_failure(each)
        tried == IF stopat = 0 THEN DOMAIN cameras
                 ELSE {c \in DOMAIN cameras : c <= stopat}
    IN  [ret |-> IF stopat = 0 THEN "ok" ELSE "err",
         results |-> [c \in tried |-> each[c].ret],
         cameras |-> [c \in DOMAIN cameras |->
                        IF c \in tried THEN each[c].cam ELSE cameras[c]]]

\* MultiCameraManager::start_all: every camera is started, an error is
\* logged, and Ok is returned
start_all(cameras, outcomes) ==
    LET each == [c \in DOMAIN cameras |-> start(cameras[c], outcomes[c])] IN
    [ret |-> "ok",
     results |-> [c \in DOMAIN cameras |-> each[c].ret],
     cameras |-> [c \in DOMAIN cameras |-> each[c].cam]]

\* MultiCameraManager::stop_all: every camera is stopped, an error is
\* logged, and Ok is returned
stop_all(cameras, outcomes) ==
    LET each == [c \in DOMAIN cameras |-> stop(cameras[c], outcomes[c])] IN
    [ret |-> "ok",
     results |-> [c \in DOMAIN cameras |-> each[c].ret],
     cameras |-> [c \in DOMAIN cameras |-> each[c].cam]]

\* no call of the manager yet
NoManagerCall ==
    [op |-> "none", prev_op |-> "none", ret |-> "ok", results |-> <<>>,
     before |-> <<>>]

ManagerInit ==
    /\ \E configs \in [CameraIds -> ConfigOutcome] :
          LET m == MultiCameraManager_new(configs) IN
          mgr = [stage |-> "managed", ret |-> m.ret, configs |-> configs,
                 cameras |-> m.cameras, last |-> NoManagerCall]
    /\ NotPubInit
    /\ NotAdapterInit
    /\ NotEngineInit
    /\ NotDetectInit
    /\ NotPipelineInit
    /\ NotNodeInit
    /\ NotLateInit

StartAll ==
    /\ \E outcomes \in [DOMAIN mgr.cameras -> StartOutcome] :
          LET r == start_all(mgr.cameras, outcomes) IN
          mgr' = [mgr EXCEPT !.cameras = r.cameras,
                    !.last = [op |-> "start_all", prev_op |-> mgr.last.op,
                              ret |-> r.ret, results |-> r.results,
                              before |-> mgr.cameras]]
    /\ UNCHANGED notManagerVars

StopAll ==
    /\ \E outcomes \in [DOMAIN mgr.cameras -> StopOutcome] :
          LET r == stop_all(mgr.cameras, outcomes) IN
          mgr' = [mgr EXCEPT !.cameras = r.cameras,
                    !.last = [op |-> "stop_all", prev_op |-> mgr.last.op,
                              ret |-> r.ret, results |-> r.results,
                              before |-> mgr.cameras]]
    /\ UNCHANGED notManagerVars

ManagerNext == StartAll \/ StopAll

ManagerSpec == ManagerInit /\ [][ManagerNext]_mgr

\* C27 as stated: a start_all that directly follows a start_all, and a
\* stop_all that directly follows a stop_all, leaves every camera as the
\* first call left it.
C27_SecondCallChangesNothing ==
    (mgr.last.op \in {"start_all", "stop_all"} /\ mgr.last.prev_op = mgr.last.op)
        => mgr.cameras = mgr.last.before

\* C27: start on a running camera and stop on a camera that is not running
\* return Ok and change nothing, so a start_all (stop_all) changes no camera
\* that was running (not running) before it; in particular the second of two
\* start_all (stop_all) in a row changes only cameras whose start (stop) the
\* first call did not complete.
C27_IdempotentWhereCompleted ==
    /\ mgr.last.op = "start_all"
         => \A c \in DOMAIN mgr.cameras :
               mgr.last.before[c].is_running
                 => /\ mgr.last.results[c] = "ok"
                    /\ mgr.cameras[c] = mgr.last.before[c]
    /\ mgr.last.op = "stop_all"
         => \A c \in DOMAIN mgr.cameras :
               ~mgr.last.before[c].is_running
                 => /\ mgr.last.results[c] = "ok"
                    /\ mgr.cameras[c] = mgr.last.before[c]

\* the second of two start_all in a row found one camera running, left it
\* alone, and started another camera whose set-up had failed before
C27_Witness ==
    /\ mgr.last.op = "start_all" /\ mgr.last.prev_op = "start_all"
    /\ \E c \in DOMAIN mgr.cameras :
          /\ mgr.last.before[c].is_running
          /\ mgr.cameras[c] = mgr.last.before[c]
    /\ \E c \in DOMAIN mgr.cameras :
          ~mgr.last.before[c].is_running /\ mgr.cameras[c].is_running

\* C28: the manager is created with every enabled camera that could be
\* created, whatever happened to the others; start_all and stop_all return
\* Ok, call every camera of the manager, and leave each camera with a result
\* and in a state that its own start or stop produces from the state the
\* camera was in, whatever the calls on the other cameras did.
C28_CameraFailureIsolation ==
    /\ mgr.stage = "managed"
         => /\ mgr.ret = "ok"
            /\ DOMAIN mgr.cameras = {c \in CameraIds : mgr.configs[c] = "ok"}
    /\ mgr.last.op \in {"start_all", "stop_all"}
         => /\ mgr.last.ret = "ok"
            /\ DOMAIN mgr.last.results = DOMAIN mgr.cameras
            /\ \A c \in DOMAIN mgr.cameras :
                  LET own == IF mgr.last.op = "start_all"
                             THEN {start(mgr.last.before[c], o) : o \in StartOutcome}
                             ELSE {stop(mgr.last.before[c], o) : o \in StopOutcome}
                  IN  [ret |-> mgr.last.results[c], cam |-> mgr.cameras[c]] \in own

\* camera 3 could not be created, camera 1 failed to start, and the same
\* start_all started camera 2
C28_Witness ==
    /\ mgr.configs[3] = "create_fail" /\ 3 \notin DOMAIN mgr.cameras
    /\ {1, 2} \subseteq DOMAIN mgr.cameras
    /\ mgr.last.op = "start_all"
    /\ mgr.last.results[1] = "err"
    /\ ~mgr.last.before[2].is_running /\ mgr.cameras[2].is_running

\* ======== NodeSpec: main of the perception node, from start to exit
\* the variables of the other specifications
notNodeVars == <<pubVars, adapterVars, engineVars, det, pipe, mgr, lateVars>>

\* what create_session answers for one model: the configuration names no
\* path for it, or the session is built, or building it fails
LoadOutcome == {"absent", "ok", "fail"}

\* the model files of one installation: "detection" always has a path
ModelLoads == {l \in [ModelNames -> LoadOutcome] : l["detection"] # "absent"}

\* an engine construction that leaves out a model it cannot load
C29_OrtEngine_new_skips_failed_model(loads) ==
    [ret |-> "ok", sessions |-> {n \in ModelNames : loads[n] = "ok"}]

\* OrtEngine::new with the outcome of each create_session: the first model
\* that fails to load ends the construction with its error; otherwise the
\* engine holds "detection" and every configured optional model
OrtEngine_new_result(loads) ==
    IF \E n \in ModelNames : loads[n] = "fail"
    THEN [ret |-> "err", sessions |-> {}]
    ELSE [ret |-> "ok",
          sessions |-> OrtEngine_new({n \in OptionalModels : loads[n] = "ok"}, 1, 0).sessions]

\* AppState::new: metrics, then the camera manager, then the engine, then
\* the publisher; the first error is returned and what was built is dropped
AppState_new(configs, loads, publisher_outcome) ==
    LET manager == MultiCameraManager_new(configs)
        eng == OrtEngine_new_result(loads)
    IN  IF eng.ret = "err"
        THEN [ret |-> "err", at |-> "engine", cameras |-> <<>>,
              sessions |-> {}, publisher |-> "none"]
        ELSE IF publisher_outcome = "fail"
        THEN [ret |-> "err", at |-> "publisher", cameras |-> <<>>,
              sessions |-> {}, publisher |-> "none"]
        ELSE [ret |-> "ok", at |-> "none", cameras |-> manager.cameras,
              sessions |-> eng.sessions, publisher |-> "open"]

\* the configurations of the cameras of one installation
NodeConfigs ==
    {[c \in CameraIds |-> "ok"],
     [c \in CameraIds |-> IF c = 1 THEN "create_fail" ELSE "ok"]}

\* GStreamerCamera::drop: stop() is called and its future is discarded
\* without being polled, so the camera is left as it is
Camera_drop(cam) == cam

\* the end of main: the values main holds are dropped; every camera goes
\* through GStreamerCamera::drop and the publisher's socket is closed by
\* ZmqPublisher::drop
drop_app_state(n) ==
    [n EXCEPT !.cameras = [c \in DOMAIN n.cameras |-> Camera_drop(n.cameras[c])],
              !.publisher = IF @ = "open" THEN "closed" ELSE @]

NodeInit ==
    /\ \E loads \in ModelLoads :
          node = [pc |-> "init", loads |-> loads, ret |-> "none", at |-> "none",
                  app_state |-> FALSE, cameras |-> <<>>, sessions |-> {},
                  publisher |-> "none", processor_started |-> FALSE,
                  served |-> 0, signalled |-> FALSE]
    /\ NotPubInit
    /\ NotAdapterInit
    /\ NotEngineInit
    /\ NotDetectInit
    /\ NotPipelineInit
    /\ NotManagerInit
    /\ NotLateInit

\* init_logging and load_config: an error ends main
LoadConfig ==
    /\ node.pc = "init"
    /\ \E outcome \in IoOutcome :
          node' = IF outcome = "ok" THEN [node EXCEPT !.pc = "loaded"]
                  ELSE [node EXCEPT !.pc = "exited", !.ret = "err", !.at = "config"]
    /\ UNCHANGED notNodeVars

\* AppState::new(config).await?: an error ends main
CreateAppState ==
    /\ node.pc = "loaded"
    /\ \E configs \in NodeConfigs, publisher_outcome \in IoOutcome :
          LET a == AppState_new(configs, node.loads, publisher_outcome) IN
          node' = IF a.ret = "ok"
                  THEN [node EXCEPT !.pc = "created", !.app_state = TRUE,
                                    !.cameras = a.cameras, !.sessions = a.sessions,
                                    !.publisher = a.publisher]
                  ELSE [node EXCEPT !.pc = "exited", !.ret = "err", !.at = a.at]
    /\ UNCHANGED notNodeVars

\* the monitors are spawned and FrameProcessor::start is awaited: it starts
\* the cameras; its error ends main
StartProcessor ==
    /\ node.pc = "created"
    /\ \E outcome \in IoOutcome, outcomes \in [DOMAIN node.cameras -> StartOutcome] :
          node' = IF outcome = "ok"
                  THEN [node EXCEPT !.pc = "serving", !.processor_started = TRUE,
                                    !.cameras = start_all(node.cameras, outcomes).cameras]
                  ELSE drop_app_state([node EXCEPT !.pc = "exited", !.ret = "err",
                                                   !.at = "processor"])
    /\ UNCHANGED notNodeVars

\* the started pipeline runs one frame through the current model
ServeFrame ==
    /\ node.pc = "serving"
    /\ node.served < MaxServed
    /\ node' = [node EXCEPT !.served = @ + 1]
    /\ UNCHANGED notNodeVars

\* wait_for_shutdown returns on ctrl-c or SIGTERM; main logs and returns Ok
Shutdown ==
    /\ node.pc = "serving"
    /\ node' = drop_app_state([node EXCEPT !.pc = "exited", !.ret = "ok",
                                           !.signalled = TRUE])
    /\ UNCHANGED notNodeVars

NodeNext == LoadConfig \/ CreateAppState \/ StartProcessor \/ ServeFrame \/ Shutdown

NodeSpec == NodeInit /\ [][NodeNext]_node

\* C29: when the detection model cannot be loaded, main ends with the
\* engine's error before any application state exists, and the processing
\* pipeline is never started; a node whose pipeline was started or that has
\* served a frame holds a "detection" session.
C29_FatalOnModelLoadFailure ==
    /\ node.loads["detection"] = "fail"
         => /\ ~node.app_state
            /\ ~node.processor_started
            /\ node.served = 0
            /\ node.pc \in {"init", "loaded", "exited"}
            /\ (node.pc = "exited" /\ node.at # "config")
                 => (node.ret = "err" /\ node.at = "engine")
    /\ (node.processor_started \/ node.served > 0)
         => "detection" \in node.sessions

\* the configuration was read, the detection model failed to load, and main
\* has ended with the engine's error
C29_Witness ==
    /\ node.loads["detection"] = "fail"
    /\ node.pc = "exited" /\ node.ret = "err" /\ node.at = "engine"
    /\ node.loads["segmentation"] = "ok"

\* C30: the publisher is not closed while a frame source is still running:
\* once the node has been shut down by the signal, every camera has been
\* stopped by the time the publisher is closed.
C30_SourcesStoppedBeforePublisherClosed ==
    (node.signalled /\ node.publisher = "closed")
        => \A c \in DOMAIN node.cameras : ~node.cameras[c].is_running

\* ======== RoundTripSpec: one PerceptionFrame from the publisher to a
\* subscriber; bytes, lengths and bit patterns of floats are numbers
\* the variables of the other specifications
notCodecVars == <<pubVars, adapterVars, engineVars, det, pipe, mgr, node, cb>>

\* a String as bincode writes it: its length, then its bytes
serialize_string(str) == <<Len(str)>> \o str

\* an Option as bincode writes it: 0, or 1 and then the value's fields;
\* None is <<>>, Some(v) is <<v>> with v the sequence of the value's fields
serialize_option(opt) == IF opt = <<>> THEN <<0>> ELSE <<1>> \o opt[1]

\* derive(Serialize) of Detection and BBox: the fields in their order
serialize_detection(d) ==
    <<d.bbox.xmin, d.bbox.ymin, d.bbox.xmax, d.bbox.ymax, d.confidence, d.class_id>>
        \o serialize_string(d.class_label)
        \o serialize_option(d.tracker_id)

RECURSIVE serialize_detections(_)
\* the elements of a Vec in their order
serialize_detections(dets) ==
    IF dets = <<>> THEN <<>>
    ELSE serialize_detection(Head(dets)) \o serialize_detections(Tail(dets))

\* bincode::serialize of a PerceptionFrame (serialize_message): the fields
\* in the order of the struct, a Vec as its length and its elements
serialize_message(frame) ==
    <<frame.frame_id, frame.timestamp>>
        \o serialize_string(frame.source_camera_id)
        \o <<frame.image_width, frame.image_height>>
        \o serialize_string(frame.model_version)
        \o <<frame.inference_time_ms>>
        \o <<Len(frame.detections)>>
        \o serialize_detections(frame.detections)
        \o serialize_option(frame.camera_intrinsics)
        \o serialize_option(frame.camera_extrinsics)

\* the result of reading one value: whether the bytes sufficed, the value,
\* and the position after it
Read(ok, value, next) == [ok |-> ok, value |-> value, next |-> next]

\* n numbers from position i
deserialize_fixed(data, i, n) ==
    IF i + n - 1 <= Len(data)
    THEN Read(TRUE, SubSeq(data, i, i + n - 1), i + n)
    ELSE Read(FALSE, <<>>, i)

deserialize_string(data, i) ==
    IF i <= Len(data) /\ data[i] >= 0 /\ i + data[i] <= Len(data)
    THEN Read(TRUE, SubSeq(data, i + 1, i + data[i]), i + data[i] + 1)
    ELSE Read(FALSE, <<>>, i)

\* an Option whose value is n numbers
deserialize_option(data, i, n) ==
    IF i > Len(data) THEN Read(FALSE, <<>>, i)
    ELSE IF data[i] = 0 THEN Read(TRUE, <<>>, i + 1)
    ELSE IF data[i] = 1
    THEN LET v == deserialize_fixed(data, i + 1, n) IN
         Read(v.ok, <<v.value>>, v.next)
    ELSE Read(FALSE, <<>>, i)

\* derive(Deserialize) of Detection and BBox
deserialize_detection(data, i) ==
    LET head == deserialize_fixed(data, i, 6)
        label == deserialize_string(data, head.next)
        tracker == deserialize_option(data, label.next, 1)
    IN  IF ~head.ok \/ ~label.ok \/ ~tracker.ok THEN Read(FALSE, <<>>, i)
        ELSE Read(TRUE,
                  [bbox |-> [xmin |-> head.value[1], ymin |-> head.value[2],
                             xmax |-> head.value[3], ymax |-> head.value[4]],
                   confidence |-> head.value[5],
                   class_id |-> head.value[6],
                   class_label |-> label.value,
                   tracker_id |-> tracker.value],
                  tracker.next)

RECURSIVE deserialize_detections(_, _, _, _)
\* the n elements of a Vec, appended to those already read
deserialize_detections(data, i, n, acc) ==
    IF n = 0 THEN Read(TRUE, acc, i)
    ELSE LET d == deserialize_detection(data, i) IN
         IF ~d.ok THEN Read(FALSE, <<>>, i)
         ELSE deserialize_detections(data, d.next, n - 1, Append(acc, d.value))

\* bincode::deserialize::<PerceptionFrame>: the fields are read in the order
\* of the struct; bytes after the last field are ignored
deserialize(data) ==
    LET ids == deserialize_fixed(data, 1, 2)
        camera == deserialize_string(data, ids.next)
        size == deserialize_fixed(data, camera.next, 2)
        version == deserialize_string(data, size.next)
        numbers == deserialize_fixed(data, version.next, 2)
        count == IF numbers.ok THEN numbers.value[2] ELSE 0
        dets == IF count >= 0 /\ count <= Len(data)
                THEN deserialize_detections(data, numbers.next, count, <<>>)
                ELSE Read(FALSE, <<>>, numbers.next)
        intrinsics == deserialize_option(data, dets.next, 9)
        extrinsics == deserialize_option(data, intrinsics.next, 6)
    IN  IF ids.ok /\ camera.ok /\ size.ok /\ version.ok /\ numbers.ok
           /\ dets.ok /\ intrinsics.ok /\ extrinsics.ok
        THEN [ret |-> "ok",
              frame |-> [frame_id |-> ids.value[1], timestamp |-> ids.value[2],
                         source_camera_id |-> camera.value,
                         image_width |-> size.value[1],
                         image_height |-> size.value[2],
                         model_version |-> version.value,
                         inference_time_ms |-> numbers.value[1],
                         detections |-> dets.value,
                         camera_intrinsics |-> intrinsics.value,
                         camera_extrinsics |-> extrinsics.value]]
        ELSE [ret |-> "err", frame |-> <<>>]

\* the first number of a zstd frame and of a gzip member, and the trailer
\* of a gzip member
ZstdMagic == 40

GzipMagic == 31

GzipTrailer == 99

\* ZmqPublisher::compress_data on bytes: None copies the data; zstd and
\* gzip wrap it in their container; lz4 puts the length of the data first
compress_bytes(strategy, data) ==
    CASE strategy = "None" -> data
      [] strategy = "Zstd" -> <<ZstdMagic>> \o data
      [] strategy = "Lz4"  -> <<Len(data)>> \o data
      [] strategy = "Gzip" -> <<GzipMagic>> \o data \o <<GzipTrailer>>

\* the subscriber's decompressor for the algorithm the envelope names
decompress(tag, bytes) ==
    CASE tag = "none" -> [ret |-> "ok", data |-> bytes]
      [] tag = "zstd" ->
            IF bytes # <<>> /\ bytes[1] = ZstdMagic
            THEN [ret |-> "ok", data |-> Tail(bytes)]
            ELSE [ret |-> "err", data |-> <<>>]
      [] tag = "lz4" ->
            IF bytes # <<>> /\ bytes[1] = Len(bytes) - 1
            THEN [ret |-> "ok", data |-> Tail(bytes)]
            ELSE [ret |-> "err", data |-> <<>>]
      [] tag = "gzip" ->
            IF Len(bytes) >= 2 /\ bytes[1] = GzipMagic
               /\ bytes[Len(bytes)] = GzipTrailer
            THEN [ret |-> "ok", data |-> SubSeq(bytes, 2, Len(bytes) - 1)]
            ELSE [ret |-> "err", data |-> <<>>]
      [] OTHER -> [ret |-> "err", data |-> <<>>]

\* publish_perception_frame up to the send: the payload is serialized and
\* compressed, and the envelope names the publisher's algorithm
encode_message(strategy, frame) ==
    LET serialized == serialize_message(frame)
        compressed == compress_bytes(strategy, serialized)
    IN  [envelope |-> [compression |-> to_string(strategy),
                       original_size |-> Len(serialized),
                       compressed_size |-> Len(compressed)],
         body |-> compressed]

\* the subscriber: decompress with the envelope's algorithm, deserialize
decode_message(message) ==
    LET d == decompress(message.envelope.compression, message.body) IN
    IF d.ret = "err" THEN [ret |-> "err", frame |-> <<>>]
    ELSE deserialize(d.data)

\* the detections of the frames that are published
SampleDetections ==
    {[bbox |-> [xmin |-> 10, ymin |-> 10, xmax |-> 50, ymax |-> 50],
      confidence |-> 95, class_id |-> 1, class_label |-> <<114, 111>>,
      tracker_id |-> <<<<123>>>>],
     [bbox |-> [xmin |-> 0, ymin |-> 1, xmax |-> 1, ymax |-> 0],
      confidence |-> 0, class_id |-> 0, class_label |-> <<>>,
      tracker_id |-> <<>>],
     [bbox |-> [xmin |-> 1, ymin |-> 0, xmax |-> 40, ymax |-> 31],
      confidence |-> 1, class_id |-> 2, class_label |-> <<1>>,
      tracker_id |-> <<<<0>>>>]}

\* the lists of at most n detections
RECURSIVE DetectionLists(_)
DetectionLists(n) ==
    IF n = 0 THEN {<<>>}
    ELSE DetectionLists(n - 1)
         \cup {Append(l, d) : l \in {k \in DetectionLists(n - 1) : Len(k) = n - 1},
                              d \in SampleDetections}

\* the frames that are published
SampleFrames ==
    [frame_id : {0, 1}, timestamp : {7}, source_camera_id : {<<>>, <<99, 49>>},
     image_width : {640}, image_height : {480}, model_version : {<<49>>},
     inference_time_ms : {3},
     detections : DetectionLists(MaxDetections),
     camera_intrinsics : {<<>>, <<<<1, 2, 3, 4, 5, 6, 7, 8, 9>>>>},
     camera_extrinsics : {<<>>, <<<<0, 0, 1, 1, 0, 2>>>>}]

RoundTripInit ==
    /\ \E strategy \in CompressionStrategy, frame \in SampleFrames :
          codec = [stage |-> "frame", strategy |-> strategy, frame |-> frame,
                   message |-> <<>>, received |-> <<>>]
    /\ NotPubInit
    /\ NotAdapterInit
    /\ NotEngineInit
    /\ NotDetectInit
    /\ NotPipelineInit
    /\ NotManagerInit
    /\ NotNodeInit
    /\ NotCallbackInit

\* the publisher builds the message and hands it to the transport
Encode ==
    /\ codec.stage = "frame"
    /\ codec' = [codec EXCEPT !.stage = "wire",
                              !.message = <<encode_message(codec.strategy, codec.frame)>>]
    /\ UNCHANGED notCodecVars

\* a subscriber takes the message
Decode_message ==
    /\ codec.stage = "wire"
    /\ codec' = [codec EXCEPT !.stage = "received",
                              !.received = <<decode_message(codec.message[1])>>]
    /\ UNCHANGED notCodecVars

RoundTripNext == Encode \/ Decode_message

RoundTripSpec == RoundTripInit /\ [][RoundTripNext]_codec

\* C31: what a subscriber gets by decompressing the body with the algorithm
\* the envelope names and deserializing the result is the PerceptionFrame
\* that was published, field by field: the same frame_id, the same
\* detections in the same order, the same class labels.
C31_PayloadRoundTrip ==
    codec.stage = "received"
        => /\ codec.received[1].ret = "ok"
           /\ codec.received[1].frame = codec.frame

\* a frame with two detections, the first without a label and without a
\* tracker, was published through lz4 and received
C31_Witness ==
    /\ codec.stage = "received"
    /\ codec.strategy = "Lz4"
    /\ codec.message[1].envelope.compression = "lz4"
    /\ Len(codec.frame.detections) = 2
    /\ codec.frame.detections[1].class_label = <<>>
    /\ codec.frame.detections[2].class_label = <<114, 111>>
    /\ codec.received[1].frame.detections[2].class_label = <<114, 111>>

\* ======== further claims on PubSpec
\* C32: the failure metric goes up by exactly one in every publish whose
\* primary send returned an error, whether the fallback then delivered the
\* message, failed, or never returned; it is left alone by a publish whose
\* primary send succeeded and by every other call.
C32_FailureMetric ==
    [][IF lastOp'.op = "publish" /\ lastOp'.pRes = "err"
       THEN self'.message_failures = self.message_failures + 1
       ELSE self'.message_failures = self.message_failures]_pubVars

\* a publisher in Degraded delivered one more message through the fallback
\* and the metric counts it as a failure
C32_Witness ==
    /\ lastOp.op = "publish" /\ lastOp.ret = "ok"
    /\ lastOp.pRes = "err" /\ lastOp.fRes = "ok"
    /\ lastOp.before = "Degraded"
    /\ self.connection_status = "Degraded"
    /\ self.message_failures = MaxFailures
    /\ self.fallback.sequence_number = 1

\* C33: on a publisher with a fallback, the fallback adapter holds a socket
\* whenever connect has returned success, so that a later publish whose
\* primary send fails can be delivered through the fallback.
C33_FallbackConnectedAfterConnect ==
    (lastOp.op = "connect" /\ lastOp.ret = "ok" /\ HasFallback)
        => self.fallback.socket

C35_ErrorLeavesSequence ==
    lastPublish.op = "publish"
        => /\ lastPublish.ret = "err"
                => adapter.sequence_number = lastPublish.seqBefore
           /\ adapter.sequence_number # lastPublish.seqBefore
                => lastPublish.ret = "ok"

\* C36: the socket has been handed whole messages only: every header or
\* envelope frame is followed by the body frame of the same message, also
\* after a publish that returned an error.
C36_TwoFrameAtomicity ==
    \A i \in 1..Len(sent) :
        sent[i].part = "envelope"
            => /\ i < Len(sent)
               /\ sent[i + 1].part = "body"
               /\ sent[i + 1].message_type = sent[i].message_type

\* ======== further claims on EngineSpec
\* C37: after every return of process_frame, with a result or with the
\* error of any step, the pending batch is empty, and the batch the call
\* flushed held the frame of that call alone: every frame that arrived was
\* taken out in its own call and none waits for a later batch.
C37_AtomicFlush ==
    /\ lastCall.op = "process_frame"
         => /\ engine.pending_frames = <<>>
            /\ lastCall.batch = <<lastCall.frame>>
    /\ \A i \in 1..Len(arrivals) : arrivals[i].flushedAt = arrivals[i].at

\* the second of two calls whose inference failed left nothing pending
C37_Witness ==
    /\ lastCall.op = "process_frame" /\ lastCall.ret = "err"
    /\ lastCall.err = InferenceError("Inference failed")
    /\ lastCall.after_error /\ lastCall.frame.sequence_num = 2
    /\ lastCall.dispatched /\ engine.max_batch_size = MaxFrames
    /\ engine.pending_frames = <<>>

\* C38: current_model always names a session of the registry, "detection"
\* is always in the registry, and no process_frame fails with "Model not
\* found".
C38_CurrentModelRegistered ==
    /\ "detection" \in get_available_models(engine)
    /\ engine.current_model \in get_available_models(engine)
    /\ lastCall.op = "process_frame"
         => lastCall.err # InferenceError("Model not found")

\* a frame ran on the segmentation session after a switch to it, with a
\* registry that lacks nothing
C38_Witness ==
    /\ lastCall.op = "process_frame" /\ lastCall.ret = "ok"
    /\ lastCall.dispatched /\ lastDispatch.model = "segmentation"
    /\ engine.current_model = "segmentation"
    /\ get_available_models(engine) = ModelNames
    /\ lastCall.frame.sequence_num = 3

\* ======== CallbackSpec: the new-sample callback of one camera run by
\* several streaming threads, step by step
\* the variables of the other specifications
notCallbackVars == <<pubVars, adapterVars, engineVars, det, pipe, mgr, node, codec>>

\* the threads that run the callback
Callbacks == 1..MaxCallbacks

\* GStreamerCamera::new as the callbacks see it: the counter at 0 behind a
\* free lock, an empty channel; no callback is running
Callback_new ==
    [stage |-> "callbacks",
     sequence_num |-> 0,
     holder |-> 0,
     pc |-> [t \in Callbacks |-> "idle"],
     current_seq |-> [t \in Callbacks |-> 0],
     channel |-> <<>>,
     returned |-> "none",
     prev_seq |-> 0,
     last_seq |-> 0,
     dropped |-> 0,
     prev_received |-> 0,
     last_received |-> 0]

\* on_new_sample up to the lock (gstreamer.rs 87-112): an early return when
\* the sample cannot be read, otherwise the pixel data is copied and the
\* callback goes on to the counter
pull_sample(c, t, outcome) ==
    IF outcome = "sample_fail"
    THEN [c EXCEPT !.returned = "err"]
    ELSE [c EXCEPT !.pc[t] = "ready"]

\* a callback that numbers the sample in a block of its own and lets the
\* lock go at the end of the block
C39_lock_and_increment_in_block(c, t) ==
    [c EXCEPT !.holder = 0,
              !.sequence_num = @ + 1,
              !.current_seq[t] = c.sequence_num + 1,
              !.prev_seq = c.last_seq,
              !.last_seq = c.sequence_num + 1,
              !.pc[t] = "numbered"]

\* sequence_num.lock(), *seq_num += 1, current_seq = *seq_num (gstreamer.rs
\* 115-117): the guard seq_num lives to the end of the function, so the
\* callback keeps the lock
lock_and_increment(c, t) ==
    [c EXCEPT !.holder = t,
              !.sequence_num = @ + 1,
              !.current_seq[t] = c.sequence_num + 1,
              !.prev_seq = c.last_seq,
              !.last_seq = c.sequence_num + 1,
              !.pc[t] = "numbered"]

\* the frame is built and offered to the channel, a refused frame is
\* discarded, and the callback returns Ok: the guard is dropped, the lock is
\* free again and the locals of the call are gone (gstreamer.rs 120-138)
offer_and_return(c, t) ==
    LET frame == CameraFrame(c.current_seq[t], c.current_seq[t], 640, 480)
        offered == try_send(c.channel, frame)
    IN  [c EXCEPT !.channel = offered.channel,
                  !.returned = IF offered.ret = "ok" THEN "sent" ELSE "discarded",
                  !.dropped = IF offered.ret = "ok" THEN @ ELSE c.current_seq[t],
                  !.holder = 0,
                  !.current_seq[t] = 0,
                  !.pc[t] = "idle"]

\* the reader of the channel takes its oldest frame
read_frame(c) ==
    [c EXCEPT !.channel = Tail(@),
              !.prev_received = c.last_received,
              !.last_received = Head(c.channel).sequence_num]

CallbackInit ==
    /\ cb = Callback_new
    /\ NotPubInit
    /\ NotAdapterInit
    /\ NotEngineInit
    /\ NotDetectInit
    /\ NotPipelineInit
    /\ NotManagerInit
    /\ NotNodeInit
    /\ NotCodecInit

\* a streaming thread enters the callback with a new sample
PullSample ==
    /\ \E t \in Callbacks, outcome \in SampleOutcome :
          /\ cb.pc[t] = "idle"
          /\ cb' = pull_sample(cb, t, outcome)
    /\ UNCHANGED notCallbackVars

\* a callback gets the lock of the counter, which no other callback holds
LockAndIncrement ==
    /\ cb.sequence_num < MaxCaptured
    /\ \E t \in Callbacks :
          /\ cb.pc[t] = "ready"
          /\ cb.holder = 0
          /\ cb' = lock_and_increment(cb, t)
    /\ UNCHANGED notCallbackVars

\* a callback offers its frame and returns
OfferAndReturn ==
    /\ \E t \in Callbacks :
          /\ cb.pc[t] = "numbered"
          /\ cb' = offer_and_return(cb, t)
    /\ UNCHANGED notCallbackVars

\* the reader takes a frame
ReadFrame ==
    /\ cb.channel # <<>>
    /\ cb' = read_frame(cb)
    /\ UNCHANGED notCallbackVars

CallbackNext == PullSample \/ LockAndIncrement \/ OfferAndReturn \/ ReadFrame

CallbackSpec == CallbackInit /\ [][CallbackNext]_cb

\* C39: with several callbacks of one camera in flight, each sample that is
\* numbered gets the number after the one given to the sample before it,
\* also when a frame was discarded; a callback that holds a number holds the
\* lock, and its number is later than every frame offered so far; the
\* channel holds the frames in increasing order of their numbers, and each
\* frame read has a greater number than the frame read before it.
C39_SequenceUnderConcurrency ==
    /\ cb.last_seq = cb.sequence_num
    /\ cb.last_seq > 0 => cb.last_seq = cb.prev_seq + 1
    /\ cb.dropped <= cb.sequence_num
    /\ \A t \in Callbacks :
          cb.pc[t] = "numbered"
            => /\ cb.holder = t
               /\ cb.current_seq[t] = cb.sequence_num
               /\ cb.current_seq[t] > cb.last_received
               /\ cb.current_seq[t] > cb.dropped
               /\ \A i \in 1..Len(cb.channel) :
                     cb.channel[i].sequence_num < cb.current_seq[t]
    /\ \A i \in 1..Len(cb.channel) :
          /\ cb.channel[i].sequence_num > cb.last_received
          /\ \A j \in 1..(i - 1) :
                cb.channel[j].sequence_num < cb.channel[i].sequence_num
    /\ cb.last_received > 0 => cb.last_received > cb.prev_received

\* a frame was discarded; the sample after it has its number while another
\* callback waits for the lock, and the reader has taken a frame
C39_Witness ==
    /\ cb.dropped = ChannelCapacity + 1
    /\ cb.last_received >= 1
    /\ \E t \in Callbacks, u \in Callbacks :
          /\ cb.pc[t] = "numbered" /\ cb.current_seq[t] = cb.dropped + 1
          /\ cb.pc[u] = "ready"

\* ======== further claims on ManagerSpec
\* C40: a camera that is not running, whether it was never started, was
\* stopped after a run, or had a start that failed part-way, is started by
\* a start whose GStreamer calls all succeed: the call returns Ok and the
\* camera runs with a callback that holds the sender of its channel.
C40_CameraRestart ==
    \A c \in DOMAIN mgr.cameras :
        ~mgr.cameras[c].is_running
            => /\ start(mgr.cameras[c], "ok").ret = "ok"
               /\ start(mgr.cameras[c], "ok").cam.is_running

====
